---- MODULE Spec2Model ----
(***************************************************************************)
(* The interactive greedy time-block scheduler of notiontriage             *)
(* (src/main.py): schedule_tasks_in_pattern drives schedule_single_task    *)
(* over a high and a low queue, threading current_time and three mode      *)
(* flags.                                                                  *)
(*                                                                         *)
(* Time: an instant is an integer number of minutes, counted from local    *)
(* midnight of day 0.  astimezone() changes the zone of a datetime and not *)
(* its instant, and Python compares and subtracts aware datetimes by       *)
(* instant, so the UTC/local conversions of the source leave these         *)
(* integers alone; only .hour, .date(), replace() and combine() look at    *)
(* the local calendar, and those are LocalHour, LocalDate and At below.    *)
(* "Today" is day 1, so that an overdue date (day 0) exists.               *)
(***************************************************************************)
EXTENDS Integers, Sequences, FiniteSets, TLC

VARIABLES
    tasks,                       \* argument `tasks` of schedule_tasks_in_pattern (ids, in input order)
    high_priority_tasks,         \* queue of ids
    low_priority_tasks,          \* queue of ids
    current_time,                \* the driver's cursor
    current_schedule,            \* in-memory schedule: sequence of ids (references to task dicts)
    mem,                         \* the in-memory task dicts: id -> [name, priority, status, done, due]
    scheduled_task_names,        \* set of names
    accept_all_mode,
    allow_late_night_scheduling,
    ignore_availability_mode,
    test_mode,
    now,                         \* the wall clock as datetime.now() last read it
    store,                       \* the task store: id -> [name, priority, status, due]
    log,                         \* what the session did, in order: calls, prompts, patch requests, returns
    pc,                          \* "overview" | "start" | "idle" | "boundary" | "prompt" | "done";
                                 \* "error": an exception left schedule_tasks_in_pattern;
                                 \* "reconcile" | "reconciled" under SpecReconcile,
                                 \* "free_blocks" under SpecFreeBlocks
    task,                        \* id of the task inside schedule_single_task, or NoTask
    start_time_local,
    end_time_local,
    time_block_minutes,
    overlap_count,               \* local of the repair loop (printed at lines 646-647, 710-711)
    pre_start,                   \* the candidate as it entered the last repair loop
    pre_end,
    overridden,                  \* a manual time override was parsed for the task at the prompt
    user_input,                  \* the last line read at the decision prompt of the task ("" before the first)
    futures,                     \* the work handed to threads by the scripts that fan out, in the order
                                 \* of submission (the scheduler starts no thread: empty in every session)
    calendar_events              \* the day's calendar events as timebudget.py fetched them

vars == <<tasks, high_priority_tasks, low_priority_tasks, current_time, current_schedule, mem,
          scheduled_task_names, accept_all_mode, allow_late_night_scheduling,
          ignore_availability_mode, test_mode, now, store, log, pc, task,
          start_time_local, end_time_local, time_block_minutes, overlap_count,
          pre_start, pre_end, overridden, user_input, futures, calendar_events>>

----------------------------------------------------------------------------
(* Bounds of the model *)

MaxTasks == 2          \* length of the input task list
MaxExisting == 3       \* most tasks the store holds with an assigned time
MaxCalls == 2          \* most calls of a routine that is run on its own

----------------------------------------------------------------------------
(* Values *)

NoTime == -1           \* Python None where a time, a date or an end is expected
NoTask == 0

MinutesPerDay == 1440
Today == 1

At(day, h, m) == day * MinutesPerDay + h * 60 + m
LocalHour(t) == (t % MinutesPerDay) \div 60
LocalDate(t) == t \div MinutesPerDay

\* a due value {"start": ..., "end": ...}: timed = FALSE is a date-only start
\* (start holds the day number), end = NoTime is a missing end
DateOnly(day) == [start |-> day, end |-> NoTime, timed |-> FALSE]
Window(s, e) == [start |-> s, end |-> e, timed |-> TRUE]

TaskIds == 1..(MaxTasks)
ExistingIds == 101..(100 + MaxExisting)

----------------------------------------------------------------------------
(* Time-Block Policy *)

priority_to_time_block ==
    [p \in {"Low", "Medium", "High", "Must Be Done Today"} |->
        CASE p = "Low" -> 5
          [] p = "Medium" -> 15
          [] p = "High" -> 30
          [] p = "Must Be Done Today" -> 30]

DefaultTimeBlock == 30

\* priority_to_time_block.get(priority, 30)
TimeBlockMinutes(priority) ==
    IF priority \in DOMAIN priority_to_time_block
    THEN priority_to_time_block[priority]
    ELSE DefaultTimeBlock

----------------------------------------------------------------------------
(* Overlap Checker *)

\* entries without start or end are skipped (line 431)
HasFullWindow(due) == due.start # NoTime /\ due.end # NoTime

\* the two comparisons taken as not strict
Overlaps_Closed(ps, pe, due) == ps <= due.end /\ pe >= due.start

\* line 435
Overlaps(ps, pe, due) == ps < due.end /\ pe > due.start

check_for_overlap(sched, m, ps, pe) ==
    \E i \in 1..Len(sched) :
        /\ HasFullWindow(m[sched[i]].due)
        /\ Overlaps(ps, pe, m[sched[i]].due)

\* line 429: `due.get` on an entry whose due date object is None raises
\* AttributeError.  The repair loop ends only on a call that walked the whole
\* schedule, so it raises whenever the schedule holds such an entry
check_for_overlap_raises(sched, m) ==
    \E i \in 1..Len(sched) :
        /\ m[sched[i]].due.start = NoTime
        /\ m[sched[i]].due.end = NoTime
        /\ ~m[sched[i]].due.timed

----------------------------------------------------------------------------
(* Inputs of a session *)

Later == "Not started [later]"

\* the task snapshots a session is run on (the store's query result)
TaskKinds ==
    { [name |-> "A", priority |-> "High", status |-> "Not started", done |-> FALSE, dueDay |-> Today],
      [name |-> "B", priority |-> "Low", status |-> "Not started", done |-> FALSE, dueDay |-> Today - 1],
      [name |-> "B", priority |-> "Must Be Done Today", status |-> Later, done |-> FALSE, dueDay |-> Today],
      [name |-> "C", priority |-> "Someday", status |-> "Not started", done |-> FALSE, dueDay |-> Today],
      [name |-> "C", priority |-> "High", status |-> "Not started", done |-> TRUE, dueDay |-> Today] }

\* snapshots with fields missing, as a caller of schedule_tasks_in_pattern may
\* pass them (the queries of lines 183-198 filter on Due, so a session of
\* assign_dues_and_blocks gets none without a due date): name "" is an empty
\* title list, dueDay NoTime is "Due": {"date": null}
MalformedKinds ==
    { [name |-> "A", priority |-> "High", status |-> "Not started", done |-> FALSE, dueDay |-> Today],
      [name |-> "", priority |-> "Low", status |-> "Not started", done |-> FALSE, dueDay |-> Today],
      [name |-> "", priority |-> "High", status |-> "Not started", done |-> FALSE, dueDay |-> Today],
      [name |-> "D", priority |-> "Low", status |-> "Not started", done |-> FALSE, dueDay |-> NoTime] }

\* a session's starting_time and what fetch_current_schedule returns for it
\* (the store's time-boxed tasks)
Sessions ==
    { [starting_time |-> At(Today, 9, 0), existing |-> << >>],
      [starting_time |-> At(Today, 9, 0), existing |->
          << [id |-> 101, priority |-> "High", start |-> At(Today, 9, 0), end |-> At(Today, 10, 0)] >>],
      [starting_time |-> At(Today, 9, 0), existing |->
          << [id |-> 101, priority |-> "Low", start |-> At(Today, 9, 0), end |-> At(Today, 9, 50)] >>],
      [starting_time |-> At(Today, 22, 30), existing |-> << >>],
      [starting_time |-> At(Today, 23, 45), existing |-> << >>],
      [starting_time |-> At(Today, 23, 15), existing |->
          << [id |-> 101, priority |-> "High", start |-> At(Today, 9, 0), end |-> At(Today, 10, 0)] >>],
      [starting_time |-> At(Today, 22, 30), existing |->
          << [id |-> 101, priority |-> "High", start |-> At(Today, 22, 30), end |-> At(Today, 23, 30)] >>] }

\* the wall clock reads 08:30 when the session starts and may have moved on
\* to 14:00 by the time it is read again
NowValues == { At(Today, 8, 30), At(Today, 14, 0) }

\* what the operator may type at the decision prompt (after strip().upper())
Inputs == { "ACCEPT ALL", "Y", "S", "X", "C", "H", "W", "R", "9AM", "25:00" }
\* what the operator may type in the boundary sub-dialog
BoundaryInputs == { "Y", "T", "R", "Q" }

\* hour 25 read as 01:00 of the day instead of a ValueError
ParseTime_WrapsHours(u) ==
    CASE u = "9AM" -> 9 * 60
      [] u = "23:00" -> 23 * 60
      [] u = "25:00" -> 1 * 60
      [] OTHER -> NoTime

\* strptime(user_input, fmt).time() for fmt in "%I%p", "%I:%M%p", "%H:%M":
\* minutes after midnight, or NoTime when every format raises ValueError
ParseTime(u) ==
    CASE u = "9AM" -> 9 * 60
      [] u = "23:00" -> 23 * 60
      [] OTHER -> NoTime

\* lines 97-101: the first title's content, "Unnamed Task" when there is none
get_task_name(name) == IF name = "" THEN "Unnamed Task" ELSE name

\* "Due": {"date": null}: the due date object is None
DueMissing(due) == due = DateOnly(NoTime)

TaskSnapshot(k) ==
    [name |-> k.name, priority |-> k.priority, status |-> k.status, done |-> k.done,
     due |-> DateOnly(k.dueDay)]

ExistingSnapshot(x) ==
    [name |-> "E", priority |-> x.priority, status |-> "Not started", done |-> FALSE,
     due |-> Window(x.start, x.end)]

SeqIds(xs) == [i \in 1..Len(xs) |-> xs[i].id]

\* the task dicts of a session: the tasks to schedule and the fetched schedule
InMemory(kinds, existing) ==
    [id \in TaskIds \cup { existing[i].id : i \in 1..Len(existing) } |->
        IF id \in TaskIds THEN TaskSnapshot(kinds[id])
        ELSE ExistingSnapshot(existing[CHOOSE i \in 1..Len(existing) : existing[i].id = id])]

----------------------------------------------------------------------------
(* The session's trace: one record per call, prompt, patch request, return *)

\* ev: "call" (schedule_single_task entered, a = current_time), "boundary" and
\*     "prompt" (the dialog shown, a..b = the candidate), "continue_late" and
\*     "restart_9am" (the boundary sub-dialog answered Y or R), "patch_window",
\*     "patch_date", "patch_status" (a request to the store, ok = its answer),
\*     "return" (s = the outcome, a = new_time, ov = a manual override preceded it),
\*     "raise" (s = the exception that left schedule_single_task)
Ev(ev, id, a, b, s, ok, ov) ==
    [ev |-> ev, id |-> id, a |-> a, b |-> b, s |-> s, ok |-> ok, ov |-> ov]

----------------------------------------------------------------------------
(* The task store *)

\* requests.patch of update_date_time: ok is the store's answer (status 200)
update_date_time(st, id, s, e, priority, status, ok) ==
    IF ~ok THEN st
    ELSE [st EXCEPT ![id] =
            [ @ EXCEPT !.due = IF s # NoTime \/ e # NoTime THEN Window(s, e) ELSE @,
                       !.priority = IF priority # "" THEN priority ELSE @,
                       !.status = IF status # "" THEN status ELSE @ ] ]

\* the payload carries a midnight start instead of a date
update_date_only_WithTime(st, id, day, ok) ==
    IF day = NoTime \/ ~ok THEN st
    ELSE [st EXCEPT ![id].due = Window(At(day, 0, 0), NoTime)]

\* requests.patch of update_date_only.  Every caller passes the isoformat of a
\* date (a day number here), which format_date_iso hands back as it is; the
\* payload has a start and no end
update_date_only(st, id, day, ok) ==
    IF day = NoTime \/ ~ok THEN st
    ELSE [st EXCEPT ![id].due = DateOnly(day)]

----------------------------------------------------------------------------
(* Single-Task Scheduler: the pieces of schedule_single_task *)

Max(a, b) == IF a >= b THEN a ELSE b

\* the hour test of line 603 left out
LaterStart_NoHourTest(ct) == At(LocalDate(ct), 18, 0)

\* lines 601-604: a 'later' task starts at 18:00 local when the cursor's hour is below 18
LaterStart(ct) == IF LocalHour(ct) < 18 THEN At(LocalDate(ct), 18, 0) ELSE ct

\* the branch of lines 601-608 left out: every task starts at the cursor
CandidateStart_NeverLater(ct, status) == ct

\* the status test of line 601 left out
CandidateStart_AnyStatus(ct, status) == LaterStart(ct)

CandidateStart(ct, status) == IF status = Later THEN LaterStart(ct) ELSE ct

\* lines 600-610: the end computed from time_block_minutes at line 600 is overwritten
\* on both branches with a 30-minute end
CandidateEnd(ct, start, status, tbm) == IF status = Later THEN start + 30 ELSE ct + 30

\* the allow_late_night_scheduling test of line 611 left out
BoundaryCheck_NoLateFlag(start, late, ign) == LocalHour(start) >= 23 /\ ~ign

\* line 611
BoundaryCheck(start, late, ign) == LocalHour(start) >= 23 /\ ~late /\ ~ign

wrap_to_9am_if_needed(dt, target_date, nw) ==
    LET candidate == IF LocalDate(dt) # target_date \/ LocalHour(dt) >= 23
                     THEN At(target_date, 9, 0)
                     ELSE dt
    IN  Max(candidate, nw)

\* the shifted end computed with a fixed half hour
RepairShift_HalfHour(s, e, tbm) == <<e, e + 30>>

\* one shift of the repair loop (lines 644-645, 708-709): the new start is the
\* candidate's own end
RepairShift(s, e, tbm) == <<e, e + tbm>>

\* an `if` in place of the `while`: one shift at most
RepairLoop_OneShift(sched, m, s, e, tbm, n) ==
    IF check_for_overlap(sched, m, s, e) THEN <<e, e + tbm, n + 1>> ELSE <<s, e, n>>

\* the while loop of lines 642-645: <<start, end, overlap_count>>
RECURSIVE RepairLoop(_, _, _, _, _, _)
RepairLoop(sched, m, s, e, tbm, n) ==
    IF check_for_overlap(sched, m, s, e)
    THEN RepairLoop(sched, m, RepairShift(s, e, tbm)[1], RepairShift(s, e, tbm)[2], tbm, n + 1)
    ELSE <<s, e, n>>

\* the repair loop is run on the anchored candidate too
AnchorOrRepair_RepairsToo(ign, sched, m, s, e, tbm, nw) ==
    IF ign
    THEN LET s9 == wrap_to_9am_if_needed(s, LocalDate(s), nw)
         IN  IF s9 # s THEN RepairLoop(sched, m, s9, s9 + tbm, tbm, 0)
             ELSE RepairLoop(sched, m, s, e, tbm, 0)
    ELSE RepairLoop(sched, m, s, e, tbm, 0)

\* lines 634-647 (and again 699-711 after a manual override)
AnchorOrRepair(ign, sched, m, s, e, tbm, nw) ==
    IF ign
    THEN LET s9 == wrap_to_9am_if_needed(s, LocalDate(s), nw)
         IN  IF s9 # s THEN <<s9, s9 + tbm, 0>> ELSE <<s, e, 0>>
    ELSE RepairLoop(sched, m, s, e, tbm, 0)

\* `if task not in current_schedule: current_schedule.append(task)`
AppendTask(sched, id) ==
    IF \E i \in 1..Len(sched) : sched[i] = id THEN sched ELSE Append(sched, id)

\* `if task in current_schedule: current_schedule.remove(task)`
RemoveTask(sched, id) == SelectSeq(sched, LAMBDA x : x # id)

\* lines 659-660, accept-all mode only: the dict in memory gets the committed window
RecordWindow(m, id, s, e) == [m EXCEPT ![id].due = Window(s, e)]

\* the date handed to the store is the candidate's own day
TomorrowOf_SameDay(start) == LocalDate(start)

\* (start_time_local.date() + timedelta(days=1)).isoformat() (lines 624, 745)
TomorrowOf(start) == LocalDate(start) + 1

\* the driver stops on a falsy new_time only after the high queue is drained
DriverStops_LowQueueOnly(new_time) == new_time = NoTime /\ high_priority_tasks = << >>

\* the driver's `if new_time is None: return` (lines 806-808, 821-823)
DriverStops(new_time) == new_time = NoTime

----------------------------------------------------------------------------
(* Session Driver and the steps of a session *)

InitWith(Kinds) ==
    /\ tasks = [i \in 1..MaxTasks |-> i]
    /\ \E kinds \in [TaskIds -> Kinds], session \in Sessions :
          /\ mem = InMemory(kinds, session.existing)
          /\ store = [id \in DOMAIN InMemory(kinds, session.existing) |->
                        [name |-> InMemory(kinds, session.existing)[id].name,
                         priority |-> InMemory(kinds, session.existing)[id].priority,
                         status |-> InMemory(kinds, session.existing)[id].status,
                         due |-> InMemory(kinds, session.existing)[id].due]]
          /\ current_schedule = SeqIds(session.existing)
          /\ current_time = session.starting_time
    /\ high_priority_tasks = << >>
    /\ low_priority_tasks = << >>
    /\ scheduled_task_names = {}
    /\ accept_all_mode = FALSE
    /\ allow_late_night_scheduling = FALSE
    /\ ignore_availability_mode = FALSE
    /\ test_mode \in BOOLEAN
    /\ now = At(Today, 8, 30)
    /\ log = << >>
    /\ pc = "overview"
    /\ task = NoTask
    /\ start_time_local = NoTime
    /\ end_time_local = NoTime
    /\ time_block_minutes = 0
    /\ overlap_count = 0
    /\ pre_start = NoTime
    /\ pre_end = NoTime
    /\ overridden = FALSE
    /\ user_input = ""
    /\ futures = << >>
    /\ calendar_events = << >>

Init == InitWith(TaskKinds)

IsHigh(m, id) == m[id].priority \in {"High", "Must Be Done Today"}

\* the sort of line 788 left out: the high queue stays in input order
MustFirst_InputOrder(m, q) == q

\* the stable sort of line 788: key False (Must Be Done Today) before key True
MustFirst(m, q) ==
    SelectSeq(q, LAMBDA id : m[id].priority = "Must Be Done Today")
        \o SelectSeq(q, LAMBDA id : m[id].priority # "Must Be Done Today")

\* assign_dues_and_blocks, lines 863-864: the schedule is fetched and shown.
\* show_schedule_overview prints its two headers and the always-available
\* 09:00-23:00 block (never empty, so display_available_time_blocks asks
\* nothing); it reads and writes neither the schedule nor the store
show_schedule_overview ==
    /\ pc = "overview"
    /\ pc' = "start"
    /\ UNCHANGED <<tasks, high_priority_tasks, low_priority_tasks, current_time,
                   current_schedule, mem, scheduled_task_names, accept_all_mode,
                   allow_late_night_scheduling, ignore_availability_mode, test_mode, now,
                   store, log, task, start_time_local, end_time_local, time_block_minutes,
                   overlap_count, pre_start, pre_end, overridden, user_input>>
    /\ UNCHANGED <<futures, calendar_events>>

\* lines 772-793: split the input into the two queues
Start ==
    /\ pc = "start"
    /\ high_priority_tasks' =
          MustFirst(mem, SelectSeq(tasks, LAMBDA id : ~mem[id].done /\ IsHigh(mem, id)))
    /\ low_priority_tasks' = SelectSeq(tasks, LAMBDA id : ~mem[id].done /\ ~IsHigh(mem, id))
    /\ pc' = "idle"
    /\ UNCHANGED <<tasks, current_time, current_schedule, mem, scheduled_task_names,
                   accept_all_mode, allow_late_night_scheduling, ignore_availability_mode,
                   test_mode, now, store, log, task, start_time_local, end_time_local,
                   time_block_minutes, overlap_count, pre_start, pre_end, overridden, user_input>>
    /\ UNCHANGED <<futures, calendar_events>>

\* schedule_single_task returns new_time to the driver (lines 806-808, 821-823)
Return(new_time) ==
    /\ pc' = IF DriverStops(new_time) THEN "done" ELSE "idle"
    /\ current_time' = IF DriverStops(new_time) THEN current_time ELSE new_time
    /\ task' = NoTask
    /\ start_time_local' = NoTime
    /\ end_time_local' = NoTime
    /\ time_block_minutes' = 0
    /\ overlap_count' = 0
    /\ pre_start' = NoTime
    /\ pre_end' = NoTime
    /\ overridden' = FALSE
    /\ user_input' = ""

\* an exception leaves schedule_single_task and, uncaught, the driver
Raise ==
    /\ pc' = "error"
    /\ current_time' = current_time
    /\ task' = NoTask
    /\ start_time_local' = NoTime
    /\ end_time_local' = NoTime
    /\ time_block_minutes' = 0
    /\ overlap_count' = 0
    /\ pre_start' = NoTime
    /\ pre_end' = NoTime
    /\ overridden' = FALSE
    /\ user_input' = ""

\* the append is left out when the store rejects the patch
Commit_Rollback(id, s, e, priority, how, lg) ==
    /\ \E ok \in BOOLEAN :
          /\ store' = IF test_mode THEN store
                      ELSE update_date_time(store, id, s, e, priority, "", ok)
          /\ log' = (IF test_mode THEN lg
                     ELSE Append(lg, Ev("patch_window", id, s, e, priority, ok, FALSE)))
                    \o << Ev("return", id, e, NoTime, how, TRUE, overridden) >>
          /\ current_schedule' = IF test_mode \/ ~ok THEN current_schedule
                                 ELSE AppendTask(current_schedule, id)
    /\ Return(e)

\* a commit: update_date_time with the window, then the append (Apply, Promote, ACCEPT ALL)
Commit(id, s, e, priority, how, lg) ==
    /\ \E ok \in BOOLEAN :
          /\ store' = IF test_mode THEN store
                      ELSE update_date_time(store, id, s, e, priority, "", ok)
          /\ log' = (IF test_mode THEN lg
                     ELSE Append(lg, Ev("patch_window", id, s, e, priority, ok, FALSE)))
                    \o << Ev("return", id, e, NoTime, how, TRUE, overridden) >>
    /\ current_schedule' = IF test_mode THEN current_schedule
                           ELSE AppendTask(current_schedule, id)
    /\ Return(e)

\* what datetime.now() may answer at line 582: the clock never runs backwards.
\* Only wrap_to_9am_if_needed reads it, so it is read under ignore_availability
\* and not otherwise
ClockReads(ign) == IF ign THEN { v \in NowValues : v >= now } ELSE { now }

\* lines 634-670: from the anchor/repair step to the first input() of the decision
\* prompt, or to the return of a duplicate skip or an accept-all commit
Proposal(id, s0, e0, tbm, ign, lg) ==
    \E nw \in ClockReads(ign) :
        /\ now' = nw
        /\ LET r == AnchorOrRepair(ign, current_schedule, mem, s0, e0, tbm, nw)
                s == r[1]
                e == r[2]
                name == get_task_name(mem[id].name)
                priority == mem[id].priority
            IN  IF ~ign /\ check_for_overlap_raises(current_schedule, mem)
                THEN /\ log' = Append(lg, Ev("raise", id, NoTime, NoTime, "AttributeError", TRUE,
                                             overridden))
                     /\ Raise
                     /\ UNCHANGED <<current_schedule, mem, scheduled_task_names, store>>
                ELSE IF name \in scheduled_task_names
                THEN /\ log' = Append(lg, Ev("return", id, current_time, NoTime, "skip", TRUE, overridden))
                     /\ Return(current_time)
                     /\ UNCHANGED <<current_schedule, mem, scheduled_task_names, store>>
                ELSE IF accept_all_mode /\ ~test_mode /\ DueMissing(mem[id].due)
                THEN \* the patch of line 657 is sent, then line 659 subscripts None
                     /\ \E ok \in BOOLEAN :
                           /\ store' = update_date_time(store, id, s, e, priority, "", ok)
                           /\ log' = lg \o << Ev("patch_window", id, s, e, priority, ok, FALSE),
                                              Ev("raise", id, NoTime, NoTime, "TypeError", TRUE,
                                                 overridden) >>
                     /\ Raise
                     /\ UNCHANGED <<current_schedule, mem, scheduled_task_names>>
                ELSE IF accept_all_mode
                THEN /\ Commit(id, s, e, priority, "accept_all", lg)
                     /\ mem' = IF test_mode THEN mem ELSE RecordWindow(mem, id, s, e)
                     /\ UNCHANGED scheduled_task_names
                ELSE /\ scheduled_task_names' = scheduled_task_names \cup {name}
                     /\ log' = Append(lg, Ev("prompt", id, s, e, "", TRUE, FALSE))
                     /\ pc' = "prompt"
                     /\ task' = id
                     /\ start_time_local' = s
                     /\ end_time_local' = e
                     /\ time_block_minutes' = tbm
                     /\ overlap_count' = r[3]
                     /\ pre_start' = s0
                     /\ pre_end' = e0
                     /\ overridden' = FALSE
                     /\ user_input' = ""
                     /\ UNCHANGED <<current_time, current_schedule, mem, store>>

\* lines 592-611: the call of schedule_single_task up to the boundary check
Enter(id) ==
    LET tbm == TimeBlockMinutes(mem[id].priority)
        s0 == CandidateStart(current_time, mem[id].status)
        e0 == CandidateEnd(current_time, s0, mem[id].status, tbm)
        lg == Append(log, Ev("call", id, current_time, NoTime, "", TRUE, FALSE))
    IN  IF BoundaryCheck(s0, allow_late_night_scheduling, ignore_availability_mode)
        THEN /\ pc' = "boundary"
             /\ task' = id
             /\ start_time_local' = s0
             /\ end_time_local' = e0
             /\ time_block_minutes' = tbm
             /\ log' = Append(lg, Ev("boundary", id, s0, e0, "", TRUE, FALSE))
             /\ UNCHANGED <<current_time, current_schedule, mem, scheduled_task_names,
                            store, overlap_count, pre_start, pre_end, overridden, user_input,
                            now>>
        ELSE Proposal(id, s0, e0, tbm, ignore_availability_mode, lg)

\* lines 794-808: the driver takes the next task of the high queue
NextHigh ==
    /\ pc = "idle"
    /\ high_priority_tasks # << >>
    /\ high_priority_tasks' = Tail(high_priority_tasks)
    /\ Enter(Head(high_priority_tasks))
    /\ UNCHANGED <<tasks, low_priority_tasks, accept_all_mode, allow_late_night_scheduling,
                   ignore_availability_mode, test_mode>>
    /\ UNCHANGED <<futures, calendar_events>>

\* lines 809-823: the high queue is empty, the driver takes the next low task
NextLow ==
    /\ pc = "idle"
    /\ high_priority_tasks = << >>
    /\ low_priority_tasks # << >>
    /\ low_priority_tasks' = Tail(low_priority_tasks)
    /\ Enter(Head(low_priority_tasks))
    /\ UNCHANGED <<tasks, high_priority_tasks, accept_all_mode, allow_late_night_scheduling,
                   ignore_availability_mode, test_mode>>
    /\ UNCHANGED <<futures, calendar_events>>

\* both loops ran out: schedule_tasks_in_pattern returns
Finish ==
    /\ pc = "idle"
    /\ high_priority_tasks = << >>
    /\ low_priority_tasks = << >>
    /\ pc' = "done"
    /\ UNCHANGED <<tasks, high_priority_tasks, low_priority_tasks, current_time,
                   current_schedule, mem, scheduled_task_names, accept_all_mode,
                   allow_late_night_scheduling, ignore_availability_mode, test_mode, now,
                   store, log, task, start_time_local, end_time_local, time_block_minutes,
                   overlap_count, pre_start, pre_end, overridden, user_input>>
    /\ UNCHANGED <<futures, calendar_events>>

----------------------------------------------------------------------------
(* The boundary sub-dialog (lines 611-633) *)

\* [Y]: no 11 PM limit for the rest of the session, go on with the candidate
BoundaryContinueLate ==
    /\ pc = "boundary"
    /\ \E response \in BoundaryInputs : response = "Y"
    /\ allow_late_night_scheduling' = TRUE
    /\ Proposal(task, start_time_local, end_time_local, time_block_minutes,
                ignore_availability_mode,
                Append(log, Ev("continue_late", task, start_time_local, end_time_local, "",
                               TRUE, FALSE)))
    /\ UNCHANGED <<tasks, high_priority_tasks, low_priority_tasks, accept_all_mode,
                   ignore_availability_mode, test_mode>>
    /\ UNCHANGED <<futures, calendar_events>>

\* the deferral patches the store without the test of line 746 (625, 767)
Defer_IgnoresTestMode(id, day, how) ==
    /\ \E ok \in BOOLEAN :
          /\ store' = update_date_only(store, id, day, ok)
          /\ log' = Append(log, Ev("patch_date", id, day, NoTime, "", ok, FALSE))
                    \o << Ev("return", id, NoTime, NoTime, how, TRUE, overridden) >>
    /\ Return(NoTime)
    /\ UNCHANGED <<current_schedule, mem, scheduled_task_names>>

\* the date-only patch of a deferral, then `return None, ...`
Defer(id, day, how) ==
    /\ \E ok \in BOOLEAN :
          /\ store' = IF test_mode THEN store ELSE update_date_only(store, id, day, ok)
          /\ log' = (IF test_mode THEN log
                     ELSE Append(log, Ev("patch_date", id, day, NoTime, "", ok, FALSE)))
                    \o << Ev("return", id, NoTime, NoTime, how, TRUE, overridden) >>
    /\ Return(NoTime)
    /\ UNCHANGED <<current_schedule, mem, scheduled_task_names>>

\* [T]: the task's due becomes the day after the candidate's local date
BoundaryTomorrow ==
    /\ pc = "boundary"
    /\ \E response \in BoundaryInputs : response = "T"
    /\ Defer(task, TomorrowOf(start_time_local), "boundary_tomorrow")
    /\ UNCHANGED <<tasks, high_priority_tasks, low_priority_tasks, accept_all_mode,
                   allow_late_night_scheduling, ignore_availability_mode, test_mode, now>>
    /\ UNCHANGED <<futures, calendar_events>>

\* [R]: from now on anchor at 9 AM and ignore availability
BoundaryRestart ==
    /\ pc = "boundary"
    /\ \E response \in BoundaryInputs : response = "R"
    /\ ignore_availability_mode' = TRUE
    /\ Proposal(task, start_time_local, end_time_local, time_block_minutes, TRUE,
                Append(log, Ev("restart_9am", task, start_time_local, end_time_local, "",
                               TRUE, FALSE)))
    /\ UNCHANGED <<tasks, high_priority_tasks, low_priority_tasks, accept_all_mode,
                   allow_late_night_scheduling, test_mode>>
    /\ UNCHANGED <<futures, calendar_events>>

\* any other answer: schedule_complete() and `return None, ...`
BoundaryQuit ==
    /\ pc = "boundary"
    /\ \E response \in BoundaryInputs : response \notin {"Y", "T", "R"}
    /\ log' = Append(log, Ev("return", task, NoTime, NoTime, "halt", TRUE, overridden))
    /\ Return(NoTime)
    /\ UNCHANGED <<tasks, high_priority_tasks, low_priority_tasks, current_schedule, mem,
                   scheduled_task_names, accept_all_mode, allow_late_night_scheduling,
                   ignore_availability_mode, test_mode, now, store>>
    /\ UNCHANGED <<futures, calendar_events>>

----------------------------------------------------------------------------
(* The decision prompt (lines 671-770) *)

BreakTokens == {"Y", "S", "X", "C", "H", "W"}

\* the task is committed and the mode flag handed back as it was
DecideAcceptAll_NoSwitch ==
    /\ pc = "prompt"
    /\ \E u \in Inputs :
          /\ u = "ACCEPT ALL"
          /\ accept_all_mode' = accept_all_mode
          /\ Commit(task, start_time_local, end_time_local, mem[task].priority,
                    "accept_all_switch", log)
    /\ UNCHANGED <<tasks, high_priority_tasks, low_priority_tasks, mem, scheduled_task_names,
                   allow_late_night_scheduling, ignore_availability_mode, test_mode, now>>
    /\ UNCHANGED <<futures, calendar_events>>

\* "ACCEPT ALL" (lines 673-683): commit this task and switch the mode on
DecideAcceptAll ==
    /\ pc = "prompt"
    /\ \E u \in Inputs :
          /\ u = "ACCEPT ALL"
          /\ accept_all_mode' = TRUE
          /\ Commit(task, start_time_local, end_time_local, mem[task].priority,
                    "accept_all_switch", log)
    /\ UNCHANGED <<tasks, high_priority_tasks, low_priority_tasks, mem, scheduled_task_names,
                   allow_late_night_scheduling, ignore_availability_mode, test_mode, now>>
    /\ UNCHANGED <<futures, calendar_events>>

\* "Y" (lines 718-726)
DecideApply ==
    /\ pc = "prompt"
    /\ \E u \in Inputs :
          /\ u = "Y"
          /\ Commit(task, start_time_local, end_time_local, mem[task].priority, "apply", log)
    /\ UNCHANGED <<tasks, high_priority_tasks, low_priority_tasks, mem, scheduled_task_names,
                   accept_all_mode, allow_late_night_scheduling, ignore_availability_mode,
                   test_mode, now>>
    /\ UNCHANGED <<futures, calendar_events>>

\* "H" (lines 756-764)
DecidePromote ==
    /\ pc = "prompt"
    /\ \E u \in Inputs :
          /\ u = "H"
          /\ Commit(task, start_time_local, end_time_local, "High", "promote", log)
    /\ UNCHANGED <<tasks, high_priority_tasks, low_priority_tasks, mem, scheduled_task_names,
                   accept_all_mode, allow_late_night_scheduling, ignore_availability_mode,
                   test_mode, now>>
    /\ UNCHANGED <<futures, calendar_events>>

\* "S" (lines 743-748)
DecideTomorrow ==
    /\ pc = "prompt"
    /\ \E u \in Inputs :
          /\ u = "S"
          /\ Defer(task, TomorrowOf(start_time_local), "tomorrow")
    /\ UNCHANGED <<tasks, high_priority_tasks, low_priority_tasks, accept_all_mode,
                   allow_late_night_scheduling, ignore_availability_mode, test_mode, now>>
    /\ UNCHANGED <<futures, calendar_events>>

\* "W" (lines 765-770)
DecideWeek ==
    /\ pc = "prompt"
    /\ \E u \in Inputs :
          /\ u = "W"
          /\ Defer(task, LocalDate(start_time_local) + 7, "week")
    /\ UNCHANGED <<tasks, high_priority_tasks, low_priority_tasks, accept_all_mode,
                   allow_late_night_scheduling, ignore_availability_mode, test_mode, now>>
    /\ UNCHANGED <<futures, calendar_events>>

\* the status both terminal tokens patch (line 751)
TerminalStatus(u) == "Done"

\* the cursor handed back is the one the task was called with
Terminal_KeepsCursor(u) ==
    /\ \E ok \in BOOLEAN :
          /\ store' = IF test_mode THEN store
                      ELSE update_date_time(store, task, NoTime, NoTime, "", "Done", ok)
          /\ log' = (IF test_mode THEN log
                     ELSE Append(log, Ev("patch_status", task, NoTime, NoTime, "Done", ok,
                                         FALSE)))
                    \o << Ev("return", task, current_time, NoTime, "terminal", TRUE,
                             overridden) >>
    /\ current_schedule' = IF test_mode THEN current_schedule
                           ELSE RemoveTask(current_schedule, task)
    /\ Return(current_time)

\* lines 750-755 for the token u: the status patch, the removal from the
\* in-memory schedule, the return of the candidate end
Terminal(u) ==
    /\ \E ok \in BOOLEAN :
          /\ store' = IF test_mode THEN store
                      ELSE update_date_time(store, task, NoTime, NoTime, "", TerminalStatus(u), ok)
          /\ log' = (IF test_mode THEN log
                     ELSE Append(log, Ev("patch_status", task, NoTime, NoTime,
                                         TerminalStatus(u), ok, FALSE)))
                    \o << Ev("return", task, end_time_local, NoTime, "terminal", TRUE,
                             overridden) >>
    /\ current_schedule' = IF test_mode THEN current_schedule
                           ELSE RemoveTask(current_schedule, task)
    /\ Return(end_time_local)

\* "X" and "C" (lines 749-755)
DecideTerminal ==
    /\ pc = "prompt"
    /\ \E u \in Inputs :
          /\ u \in {"X", "C"}
          /\ Terminal(u)
    /\ UNCHANGED <<tasks, high_priority_tasks, low_priority_tasks, mem, scheduled_task_names,
                   accept_all_mode, allow_late_night_scheduling, ignore_availability_mode,
                   test_mode, now>>
    /\ UNCHANGED <<futures, calendar_events>>

\* the parsed clock time is dropped and the candidate start kept
OverrideStart_KeepsStart(start, u) == start

\* lines 689-692: the parsed clock time on the candidate's local date
OverrideStart(start, u) == At(LocalDate(start), 0, 0) + ParseTime(u)

\* an input that is no token and parses as a clock time (lines 686-715): new
\* candidate on the candidate's date, anchor or repair again, prompt again
DecideOverride ==
    /\ pc = "prompt"
    /\ \E u \in Inputs, nw \in ClockReads(ignore_availability_mode) :
          /\ u # "ACCEPT ALL"
          /\ u \notin BreakTokens
          /\ ParseTime(u) # NoTime
          /\ now' = nw
          /\ LET s0 == OverrideStart(start_time_local, u)
                 e0 == s0 + time_block_minutes
                 r == AnchorOrRepair(ignore_availability_mode, current_schedule, mem,
                                     s0, e0, time_block_minutes, nw)
             IN  /\ start_time_local' = r[1]
                 /\ end_time_local' = r[2]
                 /\ overlap_count' = r[3]
                 /\ pre_start' = s0
                 /\ pre_end' = e0
                 /\ user_input' = u
    /\ overridden' = TRUE
    /\ UNCHANGED <<tasks, high_priority_tasks, low_priority_tasks, current_time,
                   current_schedule, mem, scheduled_task_names, accept_all_mode,
                   allow_late_night_scheduling, ignore_availability_mode, test_mode,
                   store, log, pc, task, time_block_minutes>>
    /\ UNCHANGED <<futures, calendar_events>>

\* anything else, "R" included (it is not among the tokens of line 684 and is no
\* clock time): "Invalid time format. Try again."
DecideInvalid ==
    /\ pc = "prompt"
    /\ \E u \in Inputs :
          /\ u # "ACCEPT ALL"
          /\ u \notin BreakTokens
          /\ ParseTime(u) = NoTime
          /\ user_input' = u
    /\ UNCHANGED <<tasks, high_priority_tasks, low_priority_tasks, current_time,
                   current_schedule, mem, scheduled_task_names, accept_all_mode,
                   allow_late_night_scheduling, ignore_availability_mode, test_mode, now,
                   store, log, pc, task, start_time_local, end_time_local,
                   time_block_minutes, overlap_count, pre_start, pre_end, overridden>>
    /\ UNCHANGED <<futures, calendar_events>>

Next ==
    \/ show_schedule_overview
    \/ Start
    \/ NextHigh
    \/ NextLow
    \/ Finish
    \/ BoundaryContinueLate
    \/ BoundaryTomorrow
    \/ BoundaryRestart
    \/ BoundaryQuit
    \/ DecideAcceptAll
    \/ DecideApply
    \/ DecidePromote
    \/ DecideTomorrow
    \/ DecideWeek
    \/ DecideTerminal
    \/ DecideOverride
    \/ DecideInvalid

Spec == Init /\ [][Next]_vars

\* the same session run on snapshots with missing fields
InitMalformed == InitWith(MalformedKinds)

SpecMalformed == InitMalformed /\ [][Next]_vars

----------------------------------------------------------------------------
(* Conflict Reconciler: handle_overlapping_due_dates (lines 439-490).  No
   function of the repository calls it, so no step of Spec runs it; it is
   run here on its own, on every schedule of MaxExisting entries. *)

\* the scheduler's variables while a routine is run on its own
SchedulerAtRest ==
    /\ tasks = << >>
    /\ high_priority_tasks = << >>
    /\ low_priority_tasks = << >>
    /\ current_time = At(Today, 9, 0)
    /\ scheduled_task_names = {}
    /\ accept_all_mode = FALSE
    /\ allow_late_night_scheduling = FALSE
    /\ ignore_availability_mode = FALSE
    /\ test_mode = FALSE
    /\ log = << >>
    /\ task = NoTask
    /\ start_time_local = NoTime
    /\ end_time_local = NoTime
    /\ time_block_minutes = 0
    /\ overlap_count = 0
    /\ pre_start = NoTime
    /\ pre_end = NoTime
    /\ overridden = FALSE
    /\ user_input = ""
    /\ futures = << >>
    /\ calendar_events = << >>

\* line 444
get_priority_level_HighOnly(m, id) == IF m[id].priority = "High" THEN "High" ELSE "Low"

\* lines 441-444
get_priority_level(m, id) ==
    IF m[id].priority \in {"High", "Must Be Done Today"} THEN "High" ELSE "Low"

\* the index pairs (i, j), i < j, in the order of the two loops of lines 459-470
RECURSIVE PairsFrom(_, _, _)
PairsFrom(i, j, n) ==
    IF i > n THEN << >>
    ELSE IF j > n THEN PairsFrom(i + 1, i + 2, n)
    ELSE << <<i, j>> >> \o PairsFrom(i, j + 1, n)

\* lines 457-470: the pairs of ids whose windows intersect; an entry without
\* start or end takes part in no pair (get_task_times returns None, None)
overlapping_pairs(sched, m) ==
    LET hit == SelectSeq(PairsFrom(1, 2, Len(sched)),
                   LAMBDA p :
                       /\ HasFullWindow(m[sched[p[1]]].due)
                       /\ HasFullWindow(m[sched[p[2]]].due)
                       /\ m[sched[p[1]]].due.start < m[sched[p[2]]].due.end
                       /\ m[sched[p[2]]].due.start < m[sched[p[1]]].due.end)
    IN  [k \in 1..Len(hit) |-> <<sched[hit[k][1]], sched[hit[k][2]]>>]

\* lines 483-488: what the pair (a, b) leaves of the in-memory schedule
KeptAfterPair(sched, m, a, b) ==
    LET a_priority == get_priority_level(m, a)
        b_priority == get_priority_level(m, b)
    IN  IF a_priority = "High" /\ b_priority = "Low"
        THEN SelectSeq(sched, LAMBDA t : t # b)
        ELSE IF a_priority = "Low" /\ b_priority = "High"
        THEN SelectSeq(sched, LAMBDA t : t # a)
        ELSE IF a_priority = "Low" /\ b_priority = "Low"
        THEN SelectSeq(sched, LAMBDA t : t \notin {a, b})
        ELSE sched

\* only the first task of a handled pair is demoted
RECURSIVE HandlePairs_PatchesFirst(_, _, _, _, _)
HandlePairs_PatchesFirst(pairs, sched, m, handled_ids, patched) ==
    IF pairs = << >>
    THEN [schedule |-> sched, handled_ids |-> handled_ids, patched |-> patched]
    ELSE LET a == pairs[1][1]
             b == pairs[1][2]
         IN  IF a \in handled_ids \/ b \in handled_ids
             THEN HandlePairs_PatchesFirst(Tail(pairs), sched, m, handled_ids, patched)
             ELSE HandlePairs_PatchesFirst(Tail(pairs), KeptAfterPair(sched, m, a, b), m,
                                           handled_ids \cup {a, b}, patched \o <<a>>)

\* the loop of lines 473-490: [schedule, handled_ids, patched (ids in the
\* order of the set_date_only calls)]
RECURSIVE HandlePairs(_, _, _, _, _)
HandlePairs(pairs, sched, m, handled_ids, patched) ==
    IF pairs = << >>
    THEN [schedule |-> sched, handled_ids |-> handled_ids, patched |-> patched]
    ELSE LET a == pairs[1][1]
             b == pairs[1][2]
         IN  IF a \in handled_ids \/ b \in handled_ids
             THEN HandlePairs(Tail(pairs), sched, m, handled_ids, patched)
             ELSE HandlePairs(Tail(pairs), KeptAfterPair(sched, m, a, b), m,
                              handled_ids \cup {a, b}, patched \o <<a, b>>)

handle_overlapping_due_dates(sched, m) ==
    HandlePairs(overlapping_pairs(sched, m), sched, m, {}, << >>)

\* the set_date_only calls reach the store one after the other; oks[id] is the
\* store's answer to the request for id (an id is patched at most once)
RECURSIVE ApplyDateOnly(_, _, _, _)
ApplyDateOnly(st, patched, day, oks) ==
    IF patched = << >> THEN st
    ELSE ApplyDateOnly(update_date_only(st, patched[1], day, oks[patched[1]]),
                       Tail(patched), day, oks)

\* the windows and priorities of the time-boxed tasks the reconciler is run on
ReconcileWindows ==
    { Window(At(Today, 9, 0), At(Today, 10, 0)),
      Window(At(Today, 9, 30), At(Today, 10, 30)),
      Window(At(Today, 10, 0), At(Today, 11, 0)),
      DateOnly(Today) }

ReconcilePriorities == { "High", "Must Be Done Today", "Low" }

ReconcileInput == [i \in 1..MaxExisting |-> 100 + i]

InitReconcile ==
    /\ SchedulerAtRest
    /\ now = At(Today, 8, 30)
    /\ pc = "reconcile"
    /\ current_schedule = ReconcileInput
    /\ \E dues \in [ExistingIds -> ReconcileWindows],
          priorities \in [ExistingIds -> ReconcilePriorities] :
          /\ mem = [id \in ExistingIds |->
                      [name |-> "E", priority |-> priorities[id], status |-> "Not started",
                       done |-> FALSE, due |-> dues[id]]]
          /\ store = [id \in ExistingIds |->
                        [name |-> "E", priority |-> priorities[id], status |-> "Not started",
                         due |-> dues[id]]]

\* one run of handle_overlapping_due_dates(current_schedule)
Reconcile ==
    /\ pc = "reconcile"
    /\ pc' = "reconciled"
    /\ LET r == handle_overlapping_due_dates(current_schedule, mem)
           today == LocalDate(now)
       IN  /\ current_schedule' = r.schedule
           /\ \E oks \in [ExistingIds -> BOOLEAN] :
                 /\ \A id \in ExistingIds :
                       (\A k \in 1..Len(r.patched) : r.patched[k] # id) => oks[id]
                 /\ store' = ApplyDateOnly(store, r.patched, today, oks)
                 /\ log' = log \o << Ev("reconcile", NoTask, today, NoTime, "", TRUE, FALSE) >>
                               \o [k \in 1..Len(r.patched) |->
                                      Ev("patch_date", r.patched[k], today, NoTime, "",
                                         oks[r.patched[k]], FALSE)]
    /\ UNCHANGED <<tasks, high_priority_tasks, low_priority_tasks, current_time, mem,
                   scheduled_task_names, accept_all_mode, allow_late_night_scheduling,
                   ignore_availability_mode, test_mode, now, task, start_time_local,
                   end_time_local, time_block_minutes, overlap_count, pre_start, pre_end,
                   overridden, user_input>>
    /\ UNCHANGED <<futures, calendar_events>>

NextReconcile == Reconcile

SpecReconcile == InitReconcile /\ [][NextReconcile]_vars

----------------------------------------------------------------------------
(* Free-Block Calculator: calculate_available_time_blocks (lines 492-517).
   It has no caller either (show_schedule_overview uses
   always_available_blocks) and is run here on its own, up to MaxCalls times
   on a schedule, the wall clock moving or not between the calls. *)

\* lines 498-508: the busy periods that end after the cursor, their starts
\* clipped to it; entries without start or end are left out
BusyPeriods(sched, m, ct) ==
    LET busy == SelectSeq(sched, LAMBDA id : HasFullWindow(m[id].due) /\ m[id].due.end > ct)
    IN  [i \in 1..Len(busy) |-> <<Max(m[busy[i]].due.start, ct), m[busy[i]].due.end>>]

\* busy_periods.sort(key=lambda x: x[0]): a stable sort by start
RECURSIVE InsertByStart(_, _)
InsertByStart(sorted, x) ==
    IF sorted = << >> THEN <<x>>
    ELSE IF sorted[1][1] <= x[1] THEN <<sorted[1]>> \o InsertByStart(Tail(sorted), x)
    ELSE <<x>> \o sorted

RECURSIVE SortByStart(_)
SortByStart(periods) ==
    IF periods = << >> THEN << >>
    ELSE InsertByStart(SortByStart(SubSeq(periods, 1, Len(periods) - 1)), periods[Len(periods)])

\* the sweep of lines 511-514: <<current_time, free_blocks>>
RECURSIVE Sweep(_, _, _)
Sweep(busy, ct, free) ==
    IF busy = << >> THEN <<ct, free>>
    ELSE Sweep(Tail(busy), Max(ct, busy[1][2]),
               IF ct < busy[1][1] THEN Append(free, <<ct, busy[1][1]>>) ELSE free)

calculate_available_time_blocks(sched, m, nw, start_hour, end_hour) ==
    LET today == LocalDate(nw)
        start_of_day == At(today, start_hour, 0)
        end_of_day == At(today, end_hour, 0)
        ct == Max(start_of_day, nw)
        swept == Sweep(SortByStart(BusyPeriods(sched, m, ct)), ct, << >>)
    IN  IF swept[1] < end_of_day THEN Append(swept[2], <<swept[1], end_of_day>>) ELSE swept[2]

\* the due values of the schedule the calculator is run on: a window in the
\* past, two windows that intersect, one across the end of the day window,
\* one after it, one on the next day, and a date-only due
FreeBlockDues ==
    { Window(At(Today, 7, 0), At(Today, 8, 0)),
      Window(At(Today, 10, 0), At(Today, 11, 0)),
      Window(At(Today, 10, 30), At(Today, 12, 0)),
      Window(At(Today, 22, 30), At(Today, 23, 30)),
      Window(At(Today, 23, 30), At(Today, 23, 50)),
      Window(At(Today + 1, 9, 0), At(Today + 1, 10, 0)),
      DateOnly(Today) }

\* what datetime.now() may read: before the window, inside it, after its end
FreeBlockNows == { At(Today, 8, 30), At(Today, 14, 0), At(Today, 23, 30) }

\* the due values of the schedule entries, as a call reads them
ScheduleDues(sched, m) == [i \in 1..Len(sched) |-> m[sched[i]].due]

InitFreeBlocks ==
    /\ SchedulerAtRest
    /\ now \in FreeBlockNows
    /\ pc = "free_blocks"
    /\ current_schedule = ReconcileInput
    /\ \E dues \in [ExistingIds -> FreeBlockDues] :
          /\ mem = [id \in ExistingIds |->
                      [name |-> "E", priority |-> "Low", status |-> "Not started",
                       done |-> FALSE, due |-> dues[id]]]
          /\ store = [id \in ExistingIds |->
                        [name |-> "E", priority |-> "Low", status |-> "Not started",
                         due |-> dues[id]]]

\* the call sorts the schedule itself where the source sorts busy_periods
CalculateFreeBlocks_SortsSchedule ==
    /\ pc = "free_blocks"
    /\ Len(log) < MaxCalls
    /\ log' = Append(log, [ev |-> "free_blocks", now |-> now,
                           schedule |-> ScheduleDues(current_schedule, mem),
                           blocks |-> calculate_available_time_blocks(current_schedule, mem,
                                                                      now, 9, 23)])
    /\ current_schedule' =
          LET key == SortByStart([i \in 1..Len(current_schedule) |->
                                    <<mem[current_schedule[i]].due.start, current_schedule[i]>>])
          IN  [i \in 1..Len(key) |-> key[i][2]]
    /\ UNCHANGED <<tasks, high_priority_tasks, low_priority_tasks, current_time,
                   mem, scheduled_task_names, accept_all_mode,
                   allow_late_night_scheduling, ignore_availability_mode, test_mode, now,
                   store, pc, task, start_time_local, end_time_local, time_block_minutes,
                   overlap_count, pre_start, pre_end, overridden, user_input>>
    /\ UNCHANGED <<futures, calendar_events>>

\* one call of calculate_available_time_blocks(current_schedule): the trace
\* keeps the clock it read, the schedule it read and the blocks it returned
CalculateFreeBlocks ==
    /\ pc = "free_blocks"
    /\ Len(log) < MaxCalls
    /\ log' = Append(log, [ev |-> "free_blocks", now |-> now,
                           schedule |-> ScheduleDues(current_schedule, mem),
                           blocks |-> calculate_available_time_blocks(current_schedule, mem,
                                                                      now, 9, 23)])
    /\ UNCHANGED <<tasks, high_priority_tasks, low_priority_tasks, current_time,
                   current_schedule, mem, scheduled_task_names, accept_all_mode,
                   allow_late_night_scheduling, ignore_availability_mode, test_mode, now,
                   store, pc, task, start_time_local, end_time_local, time_block_minutes,
                   overlap_count, pre_start, pre_end, overridden, user_input>>
    /\ UNCHANGED <<futures, calendar_events>>

\* the wall clock moves on between two calls
FreeBlocksClock ==
    /\ pc = "free_blocks"
    /\ \E v \in FreeBlockNows : v > now /\ now' = v
    /\ UNCHANGED <<tasks, high_priority_tasks, low_priority_tasks, current_time,
                   current_schedule, mem, scheduled_task_names, accept_all_mode,
                   allow_late_night_scheduling, ignore_availability_mode, test_mode,
                   store, log, pc, task, start_time_local, end_time_local,
                   time_block_minutes, overlap_count, pre_start, pre_end, overridden,
                   user_input>>
    /\ UNCHANGED <<futures, calendar_events>>

NextFreeBlocks ==
    \/ CalculateFreeBlocks
    \/ FreeBlocksClock

SpecFreeBlocks == InitFreeBlocks /\ [][NextFreeBlocks]_vars

----------------------------------------------------------------------------
(* Overlap Checker on its own: check_for_overlap (lines 423-437) called up to
   MaxCalls times on a schedule of MaxExisting entries, with candidates that
   touch, cross, contain and miss the entries. *)

\* the due values of the entries: two windows, a window of no length (start =
\* end, as triage_unassigned_tasks writes at line 322), a date-only due and a
\* timed start without an end
OverlapDues ==
    { Window(At(Today, 9, 0), At(Today, 10, 0)),
      Window(At(Today, 11, 0), At(Today, 11, 30)),
      Window(At(Today, 7, 30), At(Today, 7, 30)),
      DateOnly(Today),
      Window(At(Today, 9, 0), NoTime) }

\* the proposed windows: ending where an entry begins, beginning where one
\* ends, inside one, across one of no length, across the start of one
OverlapCandidates ==
    { <<At(Today, 8, 30), At(Today, 9, 0)>>,
      <<At(Today, 10, 0), At(Today, 10, 30)>>,
      <<At(Today, 9, 15), At(Today, 9, 45)>>,
      <<At(Today, 7, 15), At(Today, 7, 45)>>,
      <<At(Today, 10, 45), At(Today, 11, 15)>> }

InitOverlap ==
    /\ SchedulerAtRest
    /\ now = At(Today, 8, 30)
    /\ pc = "overlap"
    /\ current_schedule = ReconcileInput
    /\ \E dues \in [ExistingIds -> OverlapDues] :
          /\ mem = [id \in ExistingIds |->
                      [name |-> "E", priority |-> "Low", status |-> "Not started",
                       done |-> FALSE, due |-> dues[id]]]
          /\ store = [id \in ExistingIds |->
                        [name |-> "E", priority |-> "Low", status |-> "Not started",
                         due |-> dues[id]]]

\* one call of check_for_overlap(current_schedule, proposed_start, proposed_end):
\* the trace keeps the arguments, the schedule it read and the answer
CheckOverlap ==
    /\ pc = "overlap"
    /\ Len(log) < MaxCalls
    /\ \E c \in OverlapCandidates :
          log' = Append(log, [ev |-> "check_for_overlap", start |-> c[1], end |-> c[2],
                              schedule |-> ScheduleDues(current_schedule, mem),
                              result |-> check_for_overlap(current_schedule, mem, c[1], c[2])])
    /\ UNCHANGED <<tasks, high_priority_tasks, low_priority_tasks, current_time,
                   current_schedule, mem, scheduled_task_names, accept_all_mode,
                   allow_late_night_scheduling, ignore_availability_mode, test_mode, now,
                   store, pc, task, start_time_local, end_time_local, time_block_minutes,
                   overlap_count, pre_start, pre_end, overridden, user_input>>
    /\ UNCHANGED <<futures, calendar_events>>

NextOverlap == CheckOverlap

SpecOverlap == InitOverlap /\ [][NextOverlap]_vars

----------------------------------------------------------------------------
(* The scripts of the repository other than the scheduler.  Each is run on
   its own; the scheduler's locals stay as they are before a session. *)

scheduler_locals ==
    <<high_priority_tasks, low_priority_tasks, current_time, scheduled_task_names,
      accept_all_mode, allow_late_night_scheduling, ignore_availability_mode, test_mode,
      task, start_time_local, end_time_local, time_block_minutes, overlap_count,
      pre_start, pre_end, overridden, user_input>>

LocalsAtRest ==
    /\ high_priority_tasks = << >>
    /\ low_priority_tasks = << >>
    /\ current_time = At(Today, 9, 0)
    /\ scheduled_task_names = {}
    /\ accept_all_mode = FALSE
    /\ allow_late_night_scheduling = FALSE
    /\ ignore_availability_mode = FALSE
    /\ test_mode = FALSE
    /\ task = NoTask
    /\ start_time_local = NoTime
    /\ end_time_local = NoTime
    /\ time_block_minutes = 0
    /\ overlap_count = 0
    /\ pre_start = NoTime
    /\ pre_end = NoTime
    /\ overridden = FALSE
    /\ user_input = ""

\* a store page made from a snapshot
Page(snapshot) ==
    [name |-> snapshot.name, priority |-> snapshot.priority, status |-> snapshot.status,
     due |-> snapshot.due]

----------------------------------------------------------------------------
(* Bulk due-date push: main of cleanbeforenow.py (lines 138-155) and of
   cleanslate.py (lines 141-156).  main fetches the tasks, submits one
   update_due_date_to_today per task to a ThreadPoolExecutor and waits for
   all futures.  pc is the script main is in, then "returned". *)

PushScripts == { "cleanbeforenow", "cleanslate" }

\* the scripts work in America/New_York and ask for the UTC date: minutes
\* from local time to UTC (standard time)
UtcOffset == 300

\* datetime.datetime.now(UTC).date()
UtcDate(t) == LocalDate(t + UtcOffset)

\* the clock of a run: in the morning, and in the evening when the UTC date
\* is already tomorrow's
PushNows == { At(Today, 8, 30), At(Today, 20, 0) }

\* the due values of the fetched tasks: a window in the past, a window later
\* today, a date-only due, no due date
PushDues ==
    { Window(At(Today, 7, 0), At(Today, 8, 0)),
      Window(At(Today, 22, 0), At(Today, 23, 0)),
      DateOnly(Today),
      DateOnly(NoTime) }

\* what a worker does with its task.  cleanslate.py lines 105-139: it sends
\* the patch.  cleanbeforenow.py lines 85-108: a task without a due start is
\* patched; a due start after now is skipped; a date-only start parses to a
\* naive datetime, and its comparison with the aware now_utc raises TypeError
\* (line 103, outside the try), which ends the worker without a patch
WorkerOutcome(script, due, nw) ==
    IF script = "cleanslate" THEN "patch"
    ELSE IF due.start = NoTime THEN "patch"
    ELSE IF ~due.timed THEN "raise"
    ELSE IF due.start > nw THEN "skip"
    ELSE "patch"

\* the PATCH of update_due_date_to_today: {"Due": {"date": {"start": today_iso}}}
update_due_date_to_today(st, id, nw, ok) == update_date_only(st, id, UtcDate(nw), ok)

InitPush ==
    /\ LocalsAtRest
    /\ current_schedule = << >>
    /\ log = << >>
    /\ futures = << >>
    /\ calendar_events = << >>
    /\ pc \in PushScripts
    /\ now \in PushNows
    /\ \E n \in 0..MaxTasks :
          /\ tasks = [i \in 1..n |-> i]
          /\ \E dues \in [1..n -> PushDues] :
                /\ mem = [id \in 1..n |->
                            [name |-> "A", priority |-> "Low", status |-> "Not started",
                             done |-> FALSE, due |-> dues[id]]]
                /\ store = [id \in 1..n |->
                              Page([name |-> "A", priority |-> "Low", status |-> "Not started",
                                    due |-> dues[id]])]

\* `if not tasks: return`
PushNothing ==
    /\ pc \in PushScripts
    /\ tasks = << >>
    /\ pc' = "returned"
    /\ UNCHANGED <<tasks, current_schedule, mem, now, store, log, futures, calendar_events>>
    /\ UNCHANGED scheduler_locals

\* one turn of the for loop: executor.submit(update_due_date_to_today, task)
PushSubmit ==
    /\ pc \in PushScripts
    /\ Len(futures) < Len(tasks)
    /\ futures' = Append(futures, [task |-> tasks[Len(futures) + 1], state |-> "pending",
                                   script |-> pc])
    /\ UNCHANGED <<tasks, current_schedule, mem, now, store, log, pc, calendar_events>>
    /\ UNCHANGED scheduler_locals

\* a thread of the pool takes the future from the queue
PushWorkerStart ==
    /\ \E i \in 1..Len(futures) :
          /\ futures[i].state = "pending"
          /\ futures' = [futures EXCEPT ![i].state = "running"]
    /\ UNCHANGED <<tasks, current_schedule, mem, now, store, log, pc, calendar_events>>
    /\ UNCHANGED scheduler_locals

\* the body of update_due_date_to_today up to the end of the call: the patch,
\* if one is sent, reaches the store, and the future is done
PushWorkerRun ==
    /\ \E i \in 1..Len(futures) :
          /\ futures[i].state = "running"
          /\ futures' = [futures EXCEPT ![i].state = "done"]
          /\ LET id == futures[i].task
             IN  IF WorkerOutcome(futures[i].script, mem[id].due, now) = "patch"
                 THEN \E ok \in BOOLEAN :
                         /\ store' = update_due_date_to_today(store, id, now, ok)
                         /\ log' = Append(log, Ev("patch_date", id, UtcDate(now), NoTime, "",
                                                  ok, FALSE))
                 ELSE UNCHANGED <<store, log>>
    /\ UNCHANGED <<tasks, current_schedule, mem, now, pc, calendar_events>>
    /\ UNCHANGED scheduler_locals

\* main goes on without waiting for the futures
PushJoin_NoWait ==
    /\ pc \in PushScripts
    /\ tasks # << >>
    /\ Len(futures) = Len(tasks)
    /\ pc' = "returned"
    /\ UNCHANGED <<tasks, current_schedule, mem, now, store, log, futures, calendar_events>>
    /\ UNCHANGED scheduler_locals

\* concurrent.futures.wait(futures) and the end of the with block
PushJoin ==
    /\ pc \in PushScripts
    /\ tasks # << >>
    /\ Len(futures) = Len(tasks)
    /\ \A i \in 1..Len(futures) : futures[i].state = "done"
    /\ pc' = "returned"
    /\ UNCHANGED <<tasks, current_schedule, mem, now, store, log, futures, calendar_events>>
    /\ UNCHANGED scheduler_locals

NextPush ==
    \/ PushNothing
    \/ PushSubmit
    \/ PushWorkerStart
    \/ PushWorkerRun
    \/ PushJoin

SpecPush == InitPush /\ [][NextPush]_vars

----------------------------------------------------------------------------
(* Calendar-block scheduler: timebudget.py.  main (lines 318-330) fetches the
   day's calendar events once and submits schedule_daily_tasks_in_event and
   one schedule_tasks_for_mapping per entry of calendar_task_mapping to a
   ThreadPoolExecutor.  A page of this script has a class; none of the
   model's pages has its Done box ticked.  pc is "timebudget", then
   "returned". *)

\* line 37: TASK_LENGTH_MEDIUM, the length of every window the script writes
\* (priority_to_time_block.get("Medium", ...), lines 151 and 304)
TASK_LENGTH_MEDIUM == 60

\* lines 81-106 (two of the names)
daily_tasks == { "Duolingo", "Shave" }

DailyEventName == "Wake Up and Morning Routine"

\* lines 246-250: <<event name, task class>> in the order of the dict
calendar_task_mapping ==
    << <<"Academics", "Academics">>, <<"Kyros", "Kyros">>, <<"TEC Office Hours", "Co-Lab">> >>

\* lines 239-243: the events of that name as <<start, end>>, sorted by start
get_events_by_name(events, event_name) ==
    LET named == SelectSeq(events, LAMBDA ev : ev.summary = event_name)
    IN  SortByStart([i \in 1..Len(named) |-> <<named[i].start, named[i].end>>])

\* the filter {"property": "Due", "date": {"equals": today}}
DueEquals(due, day) ==
    /\ due.start # NoTime
    /\ (IF due.timed THEN LocalDate(due.start) ELSE due.start) = day

\* the store's Assigned time flag: the due date carries a time
AssignedTime(due) == due.timed

\* lines 110-118: the pages due today whose name is a daily task
fetch_daily_tasks(st, ids, nw) ==
    SelectSeq(ids, LAMBDA id : DueEquals(st[id].due, LocalDate(nw))
                                  /\ st[id].name \in daily_tasks)

\* lines 173-184: the pages of the class due today without an assigned time,
\* oldest first
fetch_unscheduled_tasks_for_class(st, ids, task_class, nw) ==
    SelectSeq(ids, LAMBDA id : /\ DueEquals(st[id].due, LocalDate(nw))
                               /\ st[id].class = task_class
                               /\ ~AssignedTime(st[id].due))

\* the inner while of lines 147-155 and 300-308: tasks are popped into the
\* event while one more window fits; [unscheduled, plan, happened]
RECURSIVE FillEvent(_, _, _, _, _)
FillEvent(unscheduled, current_start_dt, event_end_dt, plan, happened) ==
    IF unscheduled # << >> /\ current_start_dt + TASK_LENGTH_MEDIUM <= event_end_dt
    THEN FillEvent(Tail(unscheduled), current_start_dt + TASK_LENGTH_MEDIUM, event_end_dt,
                   Append(plan, <<Head(unscheduled), current_start_dt,
                                  current_start_dt + TASK_LENGTH_MEDIUM>>),
                   TRUE)
    ELSE [unscheduled |-> unscheduled, plan |-> plan, happened |-> happened]

\* the for loop of lines 134-158 and 284-311 over the matching events;
\* skip_past is the test of line 293, which the daily routine does not make
RECURSIVE PassOverEvents(_, _, _, _, _, _)
PassOverEvents(unscheduled, events, nw, skip_past, plan, happened) ==
    IF events = << >>
    THEN [unscheduled |-> unscheduled, plan |-> plan, happened |-> happened]
    ELSE IF skip_past /\ events[1][2] <= nw
    THEN PassOverEvents(unscheduled, Tail(events), nw, skip_past, plan, happened)
    ELSE LET r == FillEvent(unscheduled, Max(events[1][1], nw), events[1][2], plan, happened)
         IN  IF r.unscheduled = << >> THEN r
             ELSE PassOverEvents(r.unscheduled, Tail(events), nw, skip_past, r.plan, r.happened)

\* the outer while of lines 132-162 and 282-315: passes over the events until
\* no task is left or a pass placed none; the update_date_time calls in order,
\* as <<task id, start, end>>
RECURSIVE PlanPatches(_, _, _, _, _)
PlanPatches(unscheduled, events, nw, skip_past, plan) ==
    IF unscheduled = << >> THEN plan
    ELSE LET r == PassOverEvents(unscheduled, events, nw, skip_past, plan, FALSE)
         IN  IF ~r.happened THEN r.plan
             ELSE PlanPatches(r.unscheduled, events, nw, skip_past, r.plan)

\* lines 108-130: the daily routine fetches its tasks first, then looks for
\* its event
schedule_daily_tasks_in_event(st, ids, events, nw) ==
    LET unscheduled_daily_tasks == fetch_daily_tasks(st, ids, nw)
        matching_events == get_events_by_name(events, DailyEventName)
    IN  IF unscheduled_daily_tasks = << >> \/ matching_events = << >> THEN << >>
        ELSE PlanPatches(unscheduled_daily_tasks, matching_events, nw, FALSE, << >>)

\* lines 265-281: a mapping looks for its events first, then fetches its tasks
schedule_tasks_for_mapping(st, ids, events, event_name, task_class, nw) ==
    LET matching_events == get_events_by_name(events, event_name)
        unscheduled_tasks == fetch_unscheduled_tasks_for_class(st, ids, task_class, nw)
    IN  IF matching_events = << >> \/ unscheduled_tasks = << >> THEN << >>
        ELSE PlanPatches(unscheduled_tasks, matching_events, nw, TRUE, << >>)

\* lines 252-263: the PATCH {"Due": {"date": {"start": ..., "end": ...}}}
timebudget_update_date_time(st, id, s, e, ok) ==
    IF ok THEN [st EXCEPT ![id].due = Window(s, e)] ELSE st

\* the pages of a run: due today without a time, a daily name or not, of a
\* mapped class or not; and one page that already has a window
TimeBudgetKinds ==
    { [name |-> n, class |-> c, due |-> DateOnly(Today)] :
          n \in {"A", "Duolingo"}, c \in {"Academics", "Kyros", "Admin"} }
        \cup { [name |-> "A", class |-> "Academics",
                due |-> Window(At(Today, 12, 0), At(Today, 13, 0))] }

\* the day's calendars: every routine has an event (one hour for Academics,
\* two for Kyros); or two Academics events given out of order, a morning
\* event that is over, and nothing else
Calendars ==
    { << [summary |-> DailyEventName, start |-> At(Today, 8, 0), end |-> At(Today, 10, 0)],
         [summary |-> "Academics", start |-> At(Today, 9, 0), end |-> At(Today, 10, 0)],
         [summary |-> "Kyros", start |-> At(Today, 14, 0), end |-> At(Today, 16, 0)],
         [summary |-> "TEC Office Hours", start |-> At(Today, 10, 0), end |-> At(Today, 11, 0)] >>,
      << [summary |-> "Academics", start |-> At(Today, 14, 0), end |-> At(Today, 15, 0)],
         [summary |-> "Academics", start |-> At(Today, 9, 0), end |-> At(Today, 10, 0)],
         [summary |-> DailyEventName, start |-> At(Today, 7, 0), end |-> At(Today, 8, 0)] >> }

InitTimeBudget ==
    /\ LocalsAtRest
    /\ current_schedule = << >>
    /\ log = << >>
    /\ futures = << >>
    /\ pc = "timebudget"
    /\ now = At(Today, 8, 30)
    /\ tasks = [i \in 1..MaxTasks |-> i]
    /\ calendar_events \in Calendars
    /\ \E kinds \in [TaskIds -> TimeBudgetKinds] :
          /\ mem = [id \in TaskIds |->
                      [name |-> kinds[id].name, priority |-> "Medium", status |-> "Not started",
                       done |-> FALSE, due |-> kinds[id].due, class |-> kinds[id].class]]
          /\ store = [id \in TaskIds |->
                        [name |-> kinds[id].name, priority |-> "Medium",
                         status |-> "Not started", due |-> kinds[id].due,
                         class |-> kinds[id].class]]

\* line 326
TimeBudgetSubmitDaily ==
    /\ pc = "timebudget"
    /\ futures = << >>
    /\ futures' = << [fn |-> "schedule_daily_tasks_in_event", event_name |-> DailyEventName,
                      task_class |-> "", state |-> "pending", plan |-> << >>] >>
    /\ UNCHANGED <<tasks, current_schedule, mem, now, store, log, pc, calendar_events>>
    /\ UNCHANGED scheduler_locals

\* lines 328-329: one turn of the loop over calendar_task_mapping
TimeBudgetSubmitMapping ==
    /\ pc = "timebudget"
    /\ Len(futures) >= 1
    /\ Len(futures) <= Len(calendar_task_mapping)
    /\ futures' = Append(futures,
                         [fn |-> "schedule_tasks_for_mapping",
                          event_name |-> calendar_task_mapping[Len(futures)][1],
                          task_class |-> calendar_task_mapping[Len(futures)][2],
                          state |-> "pending", plan |-> << >>])
    /\ UNCHANGED <<tasks, current_schedule, mem, now, store, log, pc, calendar_events>>
    /\ UNCHANGED scheduler_locals

\* a thread of the pool runs the routine up to its first update_date_time:
\* it queries the store as the store is now
TimeBudgetWorkerFetch ==
    /\ \E i \in 1..Len(futures) :
          /\ futures[i].state = "pending"
          /\ futures' =
                [futures EXCEPT
                    ![i].state = "running",
                    ![i].plan =
                        IF futures[i].fn = "schedule_daily_tasks_in_event"
                        THEN schedule_daily_tasks_in_event(store, tasks, calendar_events, now)
                        ELSE schedule_tasks_for_mapping(store, tasks, calendar_events,
                                                        futures[i].event_name,
                                                        futures[i].task_class, now)]
    /\ UNCHANGED <<tasks, current_schedule, mem, now, store, log, pc, calendar_events>>
    /\ UNCHANGED scheduler_locals

\* the next update_date_time of a routine reaches the store (the trace keeps
\* the routine as s: the index of its future)
TimeBudgetWorkerPatch ==
    /\ \E i \in 1..Len(futures) :
          /\ futures[i].state = "running"
          /\ futures[i].plan # << >>
          /\ futures' = [futures EXCEPT ![i].plan = Tail(futures[i].plan)]
          /\ LET p == Head(futures[i].plan)
             IN  \E ok \in BOOLEAN :
                    /\ store' = timebudget_update_date_time(store, p[1], p[2], p[3], ok)
                    /\ log' = Append(log, Ev("patch_window", p[1], p[2], p[3], i, ok, FALSE))
    /\ UNCHANGED <<tasks, current_schedule, mem, now, pc, calendar_events>>
    /\ UNCHANGED scheduler_locals

\* the routine returns
TimeBudgetWorkerReturn ==
    /\ \E i \in 1..Len(futures) :
          /\ futures[i].state = "running"
          /\ futures[i].plan = << >>
          /\ futures' = [futures EXCEPT ![i].state = "done"]
    /\ UNCHANGED <<tasks, current_schedule, mem, now, store, log, pc, calendar_events>>
    /\ UNCHANGED scheduler_locals

\* line 330: concurrent.futures.wait(futures) and the end of the with block
TimeBudgetJoin ==
    /\ pc = "timebudget"
    /\ Len(futures) = 1 + Len(calendar_task_mapping)
    /\ \A i \in 1..Len(futures) : futures[i].state = "done"
    /\ pc' = "returned"
    /\ UNCHANGED <<tasks, current_schedule, mem, now, store, log, futures, calendar_events>>
    /\ UNCHANGED scheduler_locals

NextTimeBudget ==
    \/ TimeBudgetSubmitDaily
    \/ TimeBudgetSubmitMapping
    \/ TimeBudgetWorkerFetch
    \/ TimeBudgetWorkerPatch
    \/ TimeBudgetWorkerReturn
    \/ TimeBudgetJoin

SpecTimeBudget == InitTimeBudget /\ [][NextTimeBudget]_vars

----------------------------------------------------------------------------
(* Academic due dates: process_tasks of priority.py (lines 218-252).  The
   page's due here is its "Actually Due" date.  futures holds the threads
   prompt_due_dates_for_tasks started (lines 197-198), which nothing joins.
   pc is "process_tasks", "prompt", then "returned". *)

\* lines 122-146: get_due_date is None
ActuallyDueMissing(due) == due.start = NoTime

\* lines 141-143: the instant of the due start; a start without a time is read
\* as midnight UTC
DueInstant(due) == IF due.timed THEN due.start ELSE At(due.start, 0, 0) - UtcOffset

\* lines 154-163: datetime.combine(due_date, time(0, 0), tzinfo=local_tz), a
\* start with a time and no end.  day is the date the operator entered, or the
\* UTC date of the datetime get_due_date returned
ActuallyDueAt(day) == [start |-> At(day, 0, 0), end |-> NoTime, timed |-> TRUE]

\* lines 148-172: the PATCH of Priority and Actually Due
update_task_priority_and_due(st, id, new_priority, day, ok) ==
    IF ok THEN [st EXCEPT ![id].priority = new_priority, ![id].due = ActuallyDueAt(day)]
    ELSE st

\* lines 234-239
tasks_with_due(m, ids) == SelectSeq(ids, LAMBDA id : ~ActuallyDueMissing(m[id].due))

tasks_missing_due(m, ids) == SelectSeq(ids, LAMBDA id : ActuallyDueMissing(m[id].due))

\* line 243: the task is promoted when it is not yet Must Be Done Today and
\* due within three days
PromoteNow(page, nw) ==
    /\ page.priority # "Must Be Done Today"
    /\ nw <= DueInstant(page.due)
    /\ DueInstant(page.due) < nw + 3 * MinutesPerDay

\* the loop of lines 241-246 over the tasks that have a due date, the store
\* answering oks[id] to the request for id
RECURSIVE PromoteAll(_, _, _, _, _)
PromoteAll(st, m, with_due, nw, oks) ==
    IF with_due = << >> THEN st
    ELSE LET id == Head(with_due)
             day == IF m[id].due.timed THEN UtcDate(m[id].due.start) ELSE m[id].due.start
         IN  PromoteAll(IF PromoteNow(m[id], nw)
                        THEN update_task_priority_and_due(st, id, "Must Be Done Today", day,
                                                          oks[id])
                        ELSE st,
                        m, Tail(with_due), nw, oks)

\* the fetched pages: no due date, due tomorrow, due in a week
PriorityKinds ==
    { [priority |-> p, due |-> d] :
          p \in {"High", "Must Be Done Today"},
          d \in {DateOnly(NoTime), DateOnly(Today + 1), DateOnly(Today + 7)} }

\* the dates prompt_due_date returns for what the operator types
PromptDates == { Today + 1, Today + 7 }

InitPriority ==
    /\ LocalsAtRest
    /\ current_schedule = << >>
    /\ calendar_events = << >>
    /\ log = << >>
    /\ futures = << >>
    /\ pc = "process_tasks"
    /\ now = At(Today, 8, 30)
    /\ tasks = [i \in 1..MaxTasks |-> i]
    /\ \E kinds \in [TaskIds -> PriorityKinds] :
          /\ mem = [id \in TaskIds |->
                      [name |-> "A", priority |-> kinds[id].priority,
                       status |-> "Not started", done |-> FALSE, due |-> kinds[id].due]]
          /\ store = [id \in TaskIds |->
                        Page([name |-> "A", priority |-> kinds[id].priority,
                              status |-> "Not started", due |-> kinds[id].due])]

\* lines 241-246: the tasks that have a due date are updated one after the
\* other by the main thread
PriorityPromote ==
    /\ pc = "process_tasks"
    /\ pc' = "prompt"
    /\ \E oks \in [TaskIds -> BOOLEAN] :
          /\ \A id \in TaskIds :
                (ActuallyDueMissing(mem[id].due) \/ ~PromoteNow(mem[id], now)) => oks[id]
          /\ store' = PromoteAll(store, mem, tasks_with_due(mem, tasks), now, oks)
          /\ log' = LET promoted == SelectSeq(tasks_with_due(mem, tasks),
                                              LAMBDA id : PromoteNow(mem[id], now))
                    IN  [k \in 1..Len(promoted) |->
                            Ev("patch_priority_due", promoted[k], NoTime, NoTime,
                               "Must Be Done Today", oks[promoted[k]], FALSE)]
    /\ UNCHANGED <<tasks, current_schedule, mem, now, futures, calendar_events>>
    /\ UNCHANGED scheduler_locals

\* lines 191-198: the operator enters a date for the next task without one,
\* and a thread is started for its update
PriorityPrompt ==
    /\ pc = "prompt"
    /\ Len(futures) < Len(tasks_missing_due(mem, tasks))
    /\ \E due_date \in PromptDates :
          futures' = Append(futures, [task |-> tasks_missing_due(mem, tasks)[Len(futures) + 1],
                                      due_date |-> due_date, state |-> "started"])
    /\ UNCHANGED <<tasks, current_schedule, mem, now, store, log, pc, calendar_events>>
    /\ UNCHANGED scheduler_locals

\* lines 174-184: update_task_with_due_date in its thread: the PATCH reaches
\* the store
PriorityThreadRun ==
    /\ \E i \in 1..Len(futures) :
          /\ futures[i].state = "started"
          /\ futures' = [futures EXCEPT ![i].state = "done"]
          /\ \E ok \in BOOLEAN :
                /\ store' = update_task_priority_and_due(store, futures[i].task,
                                                         "Must Be Done Today",
                                                         futures[i].due_date, ok)
                /\ log' = Append(log, Ev("patch_priority_due", futures[i].task,
                                         At(futures[i].due_date, 0, 0), NoTime,
                                         "Must Be Done Today", ok, FALSE))
    /\ UNCHANGED <<tasks, current_schedule, mem, now, pc, calendar_events>>
    /\ UNCHANGED scheduler_locals

\* lines 200-216 and 252: double_check_academic_due_dates queries the store
\* again once the last prompt is answered; the trace keeps the tasks it
\* reports as missing a date
PriorityDoubleCheck ==
    /\ pc = "prompt"
    /\ Len(futures) = Len(tasks_missing_due(mem, tasks))
    /\ pc' = "returned"
    /\ log' = Append(log, [ev |-> "double_check",
                           missing_due |-> SelectSeq(tasks, LAMBDA id :
                                                         ActuallyDueMissing(store[id].due))])
    /\ UNCHANGED <<tasks, current_schedule, mem, now, store, futures, calendar_events>>
    /\ UNCHANGED scheduler_locals

NextPriority ==
    \/ PriorityPromote
    \/ PriorityPrompt
    \/ PriorityThreadRun
    \/ PriorityDoubleCheck

SpecPriority == InitPriority /\ [][NextPriority]_vars

----------------------------------------------------------------------------
(* Duplicate marking: mark_duplicate_tasks_as_deprecated of duplicates.py
   (lines 114-142) and of colab.py (lines 301-326), run on the fetched tasks.
   A page of these scripts has a created_time.  pc is the script, then
   "returned". *)

DuplicateScripts == { "duplicates", "colab" }

\* the names of the fetched tasks in the order of their first appearance: the
\* keys of task_groups
RECURSIVE GroupNames(_, _, _)
GroupNames(m, ids, seen) ==
    IF ids = << >> THEN seen
    ELSE GroupNames(m, Tail(ids),
                    IF \E k \in 1..Len(seen) : seen[k] = get_task_name(m[Head(ids)].name)
                    THEN seen
                    ELSE Append(seen, get_task_name(m[Head(ids)].name)))

\* task_groups[name], in fetch order
Group(m, ids, name) == SelectSeq(ids, LAMBDA id : get_task_name(m[id].name) = name)

\* sorted(group, key=lambda t: t.get("created_time")): a stable sort
sorted_group(m, group) ==
    LET keyed == SortByStart([i \in 1..Len(group) |-> <<m[group[i]].created_time, group[i]>>])
    IN  [i \in 1..Len(keyed) |-> keyed[i][2]]

\* the tasks of a group that are patched: sorted_group[1:] in duplicates.py
\* (line 136), sorted_group[:-1] in colab.py (line 321)
Duplicates(script, m, group) ==
    IF Len(group) <= 1 THEN << >>
    ELSE IF script = "duplicates" THEN Tail(sorted_group(m, group))
    ELSE SubSeq(sorted_group(m, group), 1, Len(group) - 1)

\* the ids update_task_status is called with, in order
RECURSIVE DuplicatesOfGroups(_, _, _, _)
DuplicatesOfGroups(script, m, ids, names) ==
    IF names = << >> THEN << >>
    ELSE Duplicates(script, m, Group(m, ids, Head(names)))
            \o DuplicatesOfGroups(script, m, ids, Tail(names))

mark_duplicate_tasks_as_deprecated(script, m, ids) ==
    DuplicatesOfGroups(script, m, ids, GroupNames(m, ids, << >>))

\* duplicates.py lines 94-112, colab.py lines 289-299
update_task_status(st, id, new_status, ok) ==
    IF ok THEN [st EXCEPT ![id].status = new_status] ELSE st

RECURSIVE ApplyStatus(_, _, _, _)
ApplyStatus(st, ids, new_status, oks) ==
    IF ids = << >> THEN st
    ELSE ApplyStatus(update_task_status(st, Head(ids), new_status, oks[Head(ids)]),
                     Tail(ids), new_status, oks)

\* the fetched tasks: two names, three creation times (the store keeps
\* created_time to the minute, so two tasks can share one)
DuplicateKinds == { [name |-> n, created_time |-> c] : n \in {"A", "B"}, c \in 1..3 }

InitDuplicates ==
    /\ LocalsAtRest
    /\ current_schedule = << >>
    /\ calendar_events = << >>
    /\ futures = << >>
    /\ log = << >>
    /\ pc \in DuplicateScripts
    /\ now = At(Today, 8, 30)
    /\ tasks = [i \in 1..MaxTasks |-> i]
    /\ \E kinds \in [TaskIds -> DuplicateKinds] :
          /\ mem = [id \in TaskIds |->
                      [name |-> kinds[id].name, priority |-> "Low", status |-> "Not started",
                       done |-> FALSE, due |-> DateOnly(Today),
                       created_time |-> kinds[id].created_time]]
          /\ store = [id \in TaskIds |->
                        Page([name |-> kinds[id].name, priority |-> "Low",
                              status |-> "Not started", due |-> DateOnly(Today)])]

\* one run of mark_duplicate_tasks_as_deprecated(tasks)
MarkDuplicates ==
    /\ pc \in DuplicateScripts
    /\ pc' = "returned"
    /\ LET patched == mark_duplicate_tasks_as_deprecated(pc, mem, tasks)
       IN  \E oks \in [TaskIds -> BOOLEAN] :
              /\ \A id \in TaskIds : (\A k \in 1..Len(patched) : patched[k] # id) => oks[id]
              /\ store' = ApplyStatus(store, patched, "Deprecated", oks)
              /\ log' = << [ev |-> "script", id |-> NoTask, a |-> NoTime, b |-> NoTime,
                            s |-> pc, ok |-> TRUE, ov |-> FALSE] >>
                            \o [k \in 1..Len(patched) |->
                                   Ev("patch_status", patched[k], NoTime, NoTime, "Deprecated",
                                      oks[patched[k]], FALSE)]
    /\ UNCHANGED <<tasks, current_schedule, mem, now, futures, calendar_events>>
    /\ UNCHANGED scheduler_locals

NextDuplicates == MarkDuplicates

SpecDuplicates == InitDuplicates /\ [][NextDuplicates]_vars

----------------------------------------------------------------------------
(* The overlap repair loop on its own, one test and one shift at a time: the
   `while check_for_overlap(...)` of lines 642-645 and of lines 706-709, on
   every schedule of MaxExisting entries and every policy duration. *)

\* the due values of the entries: the windows of OverlapDues, a window that
\* begins where another ends, and an entry whose due date object is None
RepairDues ==
    OverlapDues \cup { Window(At(Today, 10, 0), At(Today, 10, 20)),
                       [start |-> NoTime, end |-> NoTime, timed |-> FALSE] }

\* where the candidate begins as it enters the loop
RepairStarts == { At(Today, 7, 15), At(Today, 8, 45), At(Today, 9, 30), At(Today, 12, 0) }

\* the values of priority_to_time_block and the default of line 597
RepairBlocks == { priority_to_time_block[p] : p \in DOMAIN priority_to_time_block }
                    \cup { DefaultTimeBlock }

\* one call of check_for_overlap as the loop sees it: the walk of lines 426-436
\* from entry i on answers "true" at the first entry that overlaps, raises
\* AttributeError at line 429 on an entry whose due date object is None, and
\* answers "false" at the end of the schedule
RECURSIVE OverlapCall(_, _, _, _, _)
OverlapCall(sched, m, ps, pe, i) ==
    IF i > Len(sched) THEN "false"
    ELSE LET due == m[sched[i]].due
         IN  IF due.start = NoTime /\ due.end = NoTime /\ ~due.timed THEN "raise"
             ELSE IF HasFullWindow(due) /\ Overlaps(ps, pe, due) THEN "true"
             ELSE OverlapCall(sched, m, ps, pe, i + 1)

\* the candidate enters the loop of lines 642-645 with the half hour of lines
\* 600-610 and the loop of lines 706-709 with the policy duration of line 698
InitRepair ==
    /\ tasks = << >>
    /\ high_priority_tasks = << >>
    /\ low_priority_tasks = << >>
    /\ current_time = At(Today, 7, 0)
    /\ scheduled_task_names = {}
    /\ accept_all_mode = FALSE
    /\ allow_late_night_scheduling = FALSE
    /\ ignore_availability_mode = FALSE
    /\ test_mode = FALSE
    /\ log = << >>
    /\ task = NoTask
    /\ user_input = ""
    /\ futures = << >>
    /\ calendar_events = << >>
    /\ now = At(Today, 7, 0)
    /\ pc = "repair"
    /\ current_schedule = ReconcileInput
    /\ \E dues \in [ExistingIds -> RepairDues] :
          /\ mem = [id \in ExistingIds |->
                      [name |-> "E", priority |-> "Low", status |-> "Not started",
                       done |-> FALSE, due |-> dues[id]]]
          /\ store = [id \in ExistingIds |->
                        [name |-> "E", priority |-> "Low", status |-> "Not started",
                         due |-> dues[id]]]
    /\ start_time_local \in RepairStarts
    /\ time_block_minutes \in RepairBlocks
    /\ overridden \in BOOLEAN
    /\ end_time_local = IF overridden THEN start_time_local + time_block_minutes
                                      ELSE start_time_local + 30
    /\ overlap_count = 0
    /\ pre_start = start_time_local
    /\ pre_end = end_time_local

\* what a step of the loop leaves alone
RepairFrame ==
    UNCHANGED <<tasks, high_priority_tasks, low_priority_tasks, current_time,
                current_schedule, mem, scheduled_task_names, accept_all_mode,
                allow_late_night_scheduling, ignore_availability_mode, test_mode, now,
                store, log, task, time_block_minutes, pre_start, pre_end, overridden,
                user_input, futures, calendar_events>>

\* the shift that leaves the start where it was and only recomputes the end
RepairShiftStep_KeepsStart ==
    /\ pc = "repair"
    /\ OverlapCall(current_schedule, mem, start_time_local, end_time_local, 1) = "true"
    /\ overlap_count' = overlap_count + 1
    /\ start_time_local' = start_time_local
    /\ end_time_local' = start_time_local + time_block_minutes
    /\ pc' = "repair"
    /\ RepairFrame

\* the test of line 642 (706) answers true: the body of lines 643-645 (707-709)
RepairShiftStep ==
    /\ pc = "repair"
    /\ OverlapCall(current_schedule, mem, start_time_local, end_time_local, 1) = "true"
    /\ overlap_count' = overlap_count + 1
    /\ start_time_local' = RepairShift(start_time_local, end_time_local, time_block_minutes)[1]
    /\ end_time_local' = RepairShift(start_time_local, end_time_local, time_block_minutes)[2]
    /\ pc' = "repair"
    /\ RepairFrame

\* the test answers false: the loop is left with the candidate as it stands
RepairExit ==
    /\ pc = "repair"
    /\ OverlapCall(current_schedule, mem, start_time_local, end_time_local, 1) = "false"
    /\ pc' = "repaired"
    /\ UNCHANGED <<start_time_local, end_time_local, overlap_count>>
    /\ RepairFrame

\* the test raises at line 429: the exception leaves the loop and the scheduler
RepairRaise ==
    /\ pc = "repair"
    /\ OverlapCall(current_schedule, mem, start_time_local, end_time_local, 1) = "raise"
    /\ pc' = "error"
    /\ UNCHANGED <<start_time_local, end_time_local, overlap_count>>
    /\ RepairFrame

NextRepair == RepairShiftStep \/ RepairExit \/ RepairRaise

SpecRepair == InitRepair /\ [][NextRepair]_vars

\* the loop is straight-line code of one thread: while it has a step to take,
\* the interpreter takes it
SpecRepairFair == SpecRepair /\ WF_vars(NextRepair)

----------------------------------------------------------------------------
(* Triage: triage_unassigned_tasks (lines 296-353), one iteration of its for
   loop at a time.  tasks holds the fetched unassigned tasks, task the
   position of the loop in it, scheduled_task_names the set
   previously_triaged; the other locals of the scheduler stay at rest. *)

MaxUnassigned == 3     \* most unassigned tasks fetch_unassigned_tasks returns

UnassignedIds == 1..MaxUnassigned

\* line 305
previously_triaged == scheduled_task_names

\* the names of daily_tasks (lines 65-80) that the fetched tasks may carry
triage_daily_tasks == { "Shave" }

TriageNames == { "A", "B" } \cup triage_daily_tasks

\* lines 297-304
priority_mapping ==
    [c \in {"1", "2", "3", "c", "x", "s"} |->
        CASE c = "1" -> "Low"
          [] c = "2" -> "Medium"
          [] c = "3" -> "High"
          [] c = "c" -> "Deprecated"
          [] c = "x" -> "Done"
          [] c = "s" -> "Someday"]

\* what the operator types at the prompt of line 333 in the runs checked: a
\* priority, the two statuses, the rename and a line that is no key of the prompt
TriageChoices == { "3", "c", "x", "r", "?" }

\* what the operator types at the second prompt of line 339, after a rename
TriageSecondChoices == { "3", "?" }

\* requests.patch of rename_task (lines 103-118)
rename_task(st, id, new_name, ok) ==
    IF ~ok THEN st ELSE [st EXCEPT ![id].name = new_name]

\* lines 318-320: now, or 07:30 of today when now is later
DailyDueTime(nw) == IF nw < At(LocalDate(nw), 7, 30) THEN nw ELSE At(LocalDate(nw), 7, 30)

\* lines 340-351: the patches of one choice, <<store, events>>
TriageChoice(st, id, choice, nw, ok1, ok2) ==
    IF choice = "c"
    THEN << update_date_time(st, id, NoTime, NoTime, "", "Deprecated", ok1),
            << Ev("patch_status", id, NoTime, NoTime, "Deprecated", ok1, FALSE) >> >>
    ELSE IF choice = "x"
    THEN << update_date_time(st, id, NoTime, NoTime, "", "Done", ok1),
            << Ev("patch_status", id, NoTime, NoTime, "Done", ok1, FALSE) >> >>
    ELSE IF choice \in DOMAIN priority_mapping
    THEN << update_date_only(
                update_date_time(st, id, NoTime, NoTime, priority_mapping[choice], "", ok1),
                id, LocalDate(nw), ok2),
            << Ev("patch_priority", id, NoTime, NoTime, priority_mapping[choice], ok1, FALSE),
               Ev("patch_date", id, LocalDate(nw), NoTime, "", ok2, FALSE) >> >>
    ELSE << st, << >> >>

\* fetch_unassigned_tasks answered with n tasks of priority Unassigned, in the
\* order of their creation
InitTriage ==
    /\ LocalsAtRest
    /\ futures = << >>
    /\ calendar_events = << >>
    /\ log = << >>
    /\ current_schedule = << >>
    /\ now \in { At(Today, 7, 0), At(Today, 9, 0) }
    /\ pc = "triage"
    /\ \E n \in 0..MaxUnassigned :
          /\ tasks = [i \in 1..n |-> i]
          /\ \E names \in [1..n -> TriageNames] :
                /\ mem = [id \in 1..n |->
                            [name |-> names[id], priority |-> "Unassigned",
                             status |-> "Not started", done |-> FALSE,
                             due |-> DateOnly(NoTime)]]
                /\ store = [id \in 1..n |->
                              [name |-> names[id], priority |-> "Unassigned",
                               status |-> "Not started", due |-> DateOnly(NoTime)]]

\* what an iteration leaves alone
TriageFrame ==
    UNCHANGED <<tasks, high_priority_tasks, low_priority_tasks, current_time,
                current_schedule, mem, accept_all_mode, allow_late_night_scheduling,
                ignore_availability_mode, test_mode, now, start_time_local,
                end_time_local, time_block_minutes, overlap_count, pre_start, pre_end,
                overridden, user_input, futures, calendar_events>>

\* the position of the for loop of line 308: the first task not yet visited
TriageAt == IF task = NoTask THEN 1 ELSE task + 1

\* lines 312-315: the name was triaged before in this run
TriageDuplicate ==
    /\ pc = "triage"
    /\ TriageAt <= Len(tasks)
    /\ LET id == tasks[TriageAt]
       IN  /\ mem[id].name \in previously_triaged
           /\ \E ok \in BOOLEAN :
                 /\ store' = update_date_time(store, id, NoTime, NoTime, "", "Deprecated", ok)
                 /\ log' = Append(log, Ev("patch_status", id, NoTime, NoTime, "Deprecated",
                                           ok, FALSE))
           /\ task' = id
    /\ pc' = "returned"
    /\ UNCHANGED scheduled_task_names
    /\ TriageFrame

\* lines 316-323: a daily task
TriageDaily ==
    /\ pc = "triage"
    /\ TriageAt <= Len(tasks)
    /\ LET id == tasks[TriageAt]
           due_time == DailyDueTime(now)
       IN  /\ mem[id].name \notin previously_triaged
           /\ mem[id].name \in triage_daily_tasks
           /\ \E ok1, ok2 \in BOOLEAN :
                 /\ store' = update_date_time(
                                update_date_time(store, id, NoTime, NoTime, "Low", "", ok1),
                                id, due_time, due_time, "", "", ok2)
                 /\ log' = log \o
                       << Ev("patch_priority", id, NoTime, NoTime, "Low", ok1, FALSE),
                          Ev("patch_window", id, due_time, due_time, "", ok2, FALSE) >>
           /\ task' = id
    /\ pc' = "triage"
    /\ UNCHANGED scheduled_task_names
    /\ TriageFrame

\* lines 324-352: the prompt, the rename and the choice
TriagePrompt ==
    /\ pc = "triage"
    /\ TriageAt <= Len(tasks)
    /\ LET id == tasks[TriageAt]
       IN  /\ mem[id].name \notin previously_triaged
           /\ mem[id].name \notin triage_daily_tasks
           /\ \E first \in TriageChoices, new_name \in { "A", "B" },
                 second \in TriageSecondChoices, okr, ok1, ok2 \in BOOLEAN :
                 LET renamed == first = "r"
                     user_choice == IF renamed THEN second ELSE first
                     task_name == IF renamed THEN new_name ELSE mem[id].name
                     st == IF renamed THEN rename_task(store, id, new_name, okr) ELSE store
                     lg == Append(log, Ev("prompt", id, NoTime, NoTime, first, TRUE, FALSE))
                           \o (IF renamed
                               THEN << Ev("rename", id, NoTime, NoTime, new_name, okr, FALSE) >>
                               ELSE << >>)
                     r == TriageChoice(st, id, user_choice, now, ok1, ok2)
                 IN  /\ store' = r[1]
                     /\ log' = lg \o r[2]
                     /\ scheduled_task_names' = previously_triaged \cup { task_name }
           /\ task' = id
    /\ pc' = "triage"
    /\ TriageFrame

\* the for loop is exhausted
TriageReturn ==
    /\ pc = "triage"
    /\ TriageAt > Len(tasks)
    /\ pc' = "returned"
    /\ UNCHANGED <<store, log, task, scheduled_task_names>>
    /\ TriageFrame

NextTriage == TriageDuplicate \/ TriageDaily \/ TriagePrompt \/ TriageReturn

SpecTriage == InitTriage /\ [][NextTriage]_vars

----------------------------------------------------------------------------
(* Reading the trace *)

Last(lg) == lg[Len(lg)]

IsReturn(e, hows) == e.ev = "return" /\ e.s \in hows

CommitOutcomes == {"apply", "promote", "accept_all_switch", "accept_all"}
DeferOutcomes == {"tomorrow", "week"}

Queued == high_priority_tasks # << >> \/ low_priority_tasks # << >>

\* the cursor schedule_single_task was called with for the task of event k
CallTime(lg, k) == lg[CHOOSE j \in 1..k : lg[j].ev = "call" /\ lg[j].id = lg[k].id].a

\* the windows the session asked the store to write, in order
WindowPatches(lg) == SelectSeq(lg, LAMBDA e : e.ev = "patch_window")

----------------------------------------------------------------------------
(* C1: in a session where ignore_availability is never set, the windows the
   store holds for any two distinct tasks of the session never intersect
   (half-open rule). *)
C1_CommittedWindowsDisjoint ==
    ~ignore_availability_mode =>
        \A i, j \in TaskIds :
            (i # j /\ store[i].due.timed /\ store[j].due.timed)
                => ~Overlaps(store[i].due.start, store[i].due.end, store[j].due)

(* C2: every window committed by Apply has start <= end and a length equal to
   the Time-Block Policy duration of the task's priority. *)
C2_ApplyLengthIsPolicy ==
    \A k \in 1..Len(log) :
        (log[k].ev = "patch_window" /\ k < Len(log) /\ IsReturn(log[k + 1], {"apply"}))
            => /\ log[k].a <= log[k].b
               /\ log[k].b - log[k].a = TimeBlockMinutes(mem[log[k].id].priority)

(* C3: after a Defer-to-tomorrow or +1-week decision the driver goes on with
   the next queued task and the same current_time: the session has not ended
   while tasks are queued. *)
C3_DeferGoesOn ==
    (Len(log) > 0 /\ IsReturn(Last(log), DeferOutcomes) /\ Queued)
        => (pc = "idle" /\ current_time = CallTime(log, Len(log)))

(* C4: while neither allow_late_night nor ignore_availability is set, no
   window is committed with a start at local hour 23 or later. *)
C4_NoLateCommitWithoutOverride ==
    (~allow_late_night_scheduling /\ ~ignore_availability_mode) =>
        \A k \in 1..Len(log) :
            log[k].ev = "patch_window" => LocalHour(log[k].a) < 23

(* C5: a Halt outcome ends the session at once: it is the last thing the
   session does, whatever is still queued (no later call, prompt or patch). *)
C5_HaltStopsSession ==
    \A k \in 1..Len(log) :
        IsReturn(log[k], {"halt"}) => (k = Len(log) /\ pc = "done")

C5_Witness ==
    /\ Len(log) > 0
    /\ IsReturn(Last(log), {"halt"})
    /\ Queued

(* C6: a task whose display name equals that of a task committed earlier in
   the session is skipped: after its call nothing happens but the return of a
   skip with the cursor unchanged (no boundary dialog, no prompt, no patch). *)
C6_DuplicateNameSkipped ==
    \A k1, k2 \in 1..Len(log) :
        ( /\ k1 < k2
          /\ log[k1].ev = "patch_window"
          /\ log[k2].ev = "call"
          /\ mem[log[k2].id].name = mem[log[k1].id].name
          /\ k2 < Len(log) )
            => (IsReturn(log[k2 + 1], {"skip"}) /\ log[k2 + 1].a = log[k2].a)

(* C7: every entry of the in-memory schedule has a full (start, end) window,
   and for a task committed during the session it is the committed window. *)
C7_ScheduleEntriesHaveWindows ==
    /\ \A i \in 1..Len(current_schedule) : HasFullWindow(mem[current_schedule[i]].due)
    /\ \A k \in 1..Len(log) :
          log[k].ev = "patch_window" => mem[log[k].id].due = Window(log[k].a, log[k].b)

(* C8 as stated: over a whole session the cursor never decreases, for every
   decision and every mode. *)
C8_CursorNeverDecreases == [][current_time' >= current_time]_vars

(* C8 amended: the cursor never decreases over a task that is handled without
   a manual time override and with ignore_availability not set. *)
C8_CursorMonotoneInNormalMode ==
    [][(~ignore_availability_mode' /\ ~overridden) => current_time' >= current_time]_vars

C8_Witness ==
    /\ Len(log) > 0
    /\ IsReturn(Last(log), CommitOutcomes)
    /\ ~Last(log).ov
    /\ ~ignore_availability_mode
    /\ current_time = Last(log).a
    /\ current_time > CallTime(log, Len(log))

\* the k-th candidate the repair loop tested: the candidate as it entered the
\* loop, then one policy duration after another from its end
RepairCandidate(k) ==
    IF k = 0 THEN <<pre_start, pre_end>>
    ELSE <<pre_end + (k - 1) * time_block_minutes, pre_end + k * time_block_minutes>>

\* the schedule entries the candidate overlapped as it entered the repair loop
Conflicting ==
    { i \in 1..Len(current_schedule) :
        /\ HasFullWindow(mem[current_schedule[i]].due)
        /\ Overlaps(pre_start, pre_end, mem[current_schedule[i]].due) }

(* C9 as stated: overlap repair moves the candidate so that it starts exactly
   at the end of the conflicting task and lasts the task's duration, for any
   end time of the conflicting task. *)
C9_RepairStartsAtConflictEnd ==
    (pc = "prompt" /\ overlap_count > 0) =>
        /\ \E i \in Conflicting : start_time_local = mem[current_schedule[i]].due.end
        /\ end_time_local = start_time_local + time_block_minutes

(* C9 amended: overlap repair moves the candidate forward by its own length:
   the first shift starts it at its own end, every further shift one policy
   duration later, until no entry overlaps; the result lasts the policy
   duration and starts at or after the end of every conflicting task. *)
C9_RepairStepsByOwnLength ==
    (pc = "prompt" /\ overlap_count > 0) =>
        /\ <<start_time_local, end_time_local>> = RepairCandidate(overlap_count)
        /\ end_time_local = start_time_local + time_block_minutes
        /\ ~check_for_overlap(current_schedule, mem, start_time_local, end_time_local)
        /\ \A k \in 0..(overlap_count - 1) :
              check_for_overlap(current_schedule, mem, RepairCandidate(k)[1], RepairCandidate(k)[2])
        /\ \A i \in Conflicting : start_time_local >= mem[current_schedule[i]].due.end

\* the scenario of the spec: 09:00-09:30 against 09:00-10:00 becomes 10:00-10:30
C9_Witness ==
    /\ pc = "prompt"
    /\ overlap_count > 0
    /\ pre_start = At(Today, 9, 0)
    /\ pre_end = At(Today, 9, 30)
    /\ current_schedule = <<101>>
    /\ mem[101].due = Window(At(Today, 9, 0), At(Today, 10, 0))
    /\ start_time_local = At(Today, 10, 0)
    /\ end_time_local = At(Today, 10, 30)

\* the premises of C10: nothing was scheduled before the session, the session
\* started before 23:00, no task is of the 'later' status, the store is
\* written (no test mode), and all the operator did was answer Apply
NoExistingSchedule == \A i \in 1..Len(current_schedule) : current_schedule[i] \in TaskIds

AllApply ==
    /\ NoExistingSchedule
    /\ ~test_mode
    /\ \A id \in TaskIds : mem[id].status # Later
    /\ Len(log) > 0
    /\ LocalHour(log[1].a) < 23
    /\ \A k \in 1..Len(log) :
          /\ log[k].ev # "boundary"
          /\ log[k].ev = "return" => (log[k].s = "apply" /\ ~log[k].ov)

(* C10 as stated, with the spec's scenario: a High task and a Low task from
   09:00, both applied, get 09:00-10:00 and 10:00-10:30. *)
C10_SpecScenario ==
    ( /\ AllApply
      /\ Len(WindowPatches(log)) = 2
      /\ log[1].a = At(Today, 9, 0)
      /\ mem[WindowPatches(log)[1].id].priority = "High"
      /\ mem[WindowPatches(log)[2].id].priority = "Low" )
        => /\ WindowPatches(log)[1].a = At(Today, 9, 0)
           /\ WindowPatches(log)[1].b = At(Today, 10, 0)
           /\ WindowPatches(log)[2].a = At(Today, 10, 0)
           /\ WindowPatches(log)[2].b = At(Today, 10, 30)

(* C10 amended: under the premises the first window starts at the cursor the
   session started with, each next window starts at the end of the window
   committed before it, and no low-queue task is committed before a
   high-queue task. *)
C10_WindowsChain ==
    AllApply =>
        LET w == WindowPatches(log)
        IN  /\ Len(w) > 0 => w[1].a = log[1].a
            /\ \A k \in 1..(Len(w) - 1) : w[k + 1].a = w[k].b
            /\ \A k1, k2 \in 1..Len(w) :
                  (k1 < k2 /\ IsHigh(mem, w[k2].id)) => IsHigh(mem, w[k1].id)

\* a High task and a task of unrecognized priority from 09:00: 09:00-09:30, 09:30-10:00
C10_Witness ==
    /\ AllApply
    /\ pc = "done"
    /\ Len(WindowPatches(log)) = 2
    /\ IsHigh(mem, WindowPatches(log)[1].id)
    /\ ~IsHigh(mem, WindowPatches(log)[2].id)
    /\ tasks[1] = WindowPatches(log)[2].id
    /\ WindowPatches(log)[1].a = At(Today, 9, 0)
    /\ WindowPatches(log)[1].b = At(Today, 9, 30)
    /\ WindowPatches(log)[2].a = At(Today, 9, 30)
    /\ WindowPatches(log)[2].b = At(Today, 10, 0)

----------------------------------------------------------------------------
(* C11: the Rename token "R" typed at the decision prompt is accepted: the
   step that reads it sends the rename to the store (a name patch for the
   task) and shows the proposal of the same task again with the same
   current_time; it is not answered as an invalid input. *)
C11_RenameAccepted ==
    [][(pc = "prompt" /\ user_input' = "R" /\ user_input # "R")
          => /\ Len(log') > Len(log)
             /\ log'[Len(log) + 1].ev = "patch_name"
             /\ log'[Len(log) + 1].id = task
             /\ current_time' = current_time
             /\ task' = task
             /\ pc' = "prompt"]_vars

(* C12: once the operator has answered the boundary sub-dialog with "continue
   late night", allow_late_night is set for the rest of the session and no
   task of either queue enters the boundary sub-dialog again. *)
C12_NoBoundaryAfterContinueLate ==
    \A j \in 1..Len(log) :
        log[j].ev = "continue_late"
            => /\ allow_late_night_scheduling
               /\ pc # "boundary"
               /\ \A k \in (j + 1)..Len(log) : log[k].ev # "boundary"

\* the dialog was answered on a high-queue task; a later low-queue task was
\* called with a cursor at hour 23 and went straight to its prompt
C12_Witness ==
    /\ allow_late_night_scheduling
    /\ ~ignore_availability_mode
    /\ pc = "prompt"
    /\ \E j, k \in 1..Len(log) :
          /\ j < k
          /\ log[j].ev = "continue_late"
          /\ IsHigh(mem, log[j].id)
          /\ log[k].ev = "call"
          /\ log[k].id = task
          /\ ~IsHigh(mem, task)
          /\ LocalHour(log[k].a) >= 23

\* the mode flags as the trace tells them
FlagsFromTrace ==
    [ accept_all |-> \E k \in 1..Len(log) : IsReturn(log[k], {"accept_all_switch"}),
      late_night |-> \E k \in 1..Len(log) : log[k].ev = "continue_late",
      ignore_availability |-> \E k \in 1..Len(log) : log[k].ev = "restart_9am" ]

\* the requests sent to the store between events j and k of the trace
PatchesBetween(j, k) ==
    { i \in (j + 1)..(k - 1) : log[i].ev \in {"patch_window", "patch_date", "patch_status"} }

\* the last event of kind ev before event k
LastBefore(ev, k) == CHOOSE j \in 1..(k - 1) : log[j].ev = ev /\ \A i \in (j + 1)..(k - 1) : log[i].ev # ev

(* C13: the boundary sub-dialog opens only for a candidate start at local
   hour 23 or later with neither override flag set, and when it is answered
   "tomorrow": current_time is what the task was called with, the task is
   not in the in-memory schedule, the three mode flags are what they were
   (none was switched by the answer), and the only request sent to the store
   for the answer sets the task's due to the date-only day after the
   candidate's local date (none at all in test mode); the store holds that
   date when it accepted the request. *)
C13_BoundaryTomorrowFrame ==
    /\ \A k \in 1..Len(log) :
          log[k].ev = "boundary"
              => /\ LocalHour(log[k].a) >= 23
                 /\ \A i \in 1..k : log[i].ev \notin {"continue_late", "restart_9am"}
    /\ (Len(log) > 0 /\ IsReturn(Last(log), {"boundary_tomorrow"})) =>
          LET n == Len(log)
              b == LastBefore("boundary", n)
              id == Last(log).id
              day == LocalDate(log[b].a) + 1
          IN  /\ log[b].id = id
              /\ current_time = CallTime(log, n)
              /\ \A i \in 1..Len(current_schedule) : current_schedule[i] # id
              /\ ~allow_late_night_scheduling
              /\ ~ignore_availability_mode
              /\ accept_all_mode = FlagsFromTrace.accept_all
              /\ Cardinality(PatchesBetween(b, n)) = IF test_mode THEN 0 ELSE 1
              /\ \A i \in PatchesBetween(b, n) :
                    /\ log[i] = Ev("patch_date", id, day, NoTime, "", log[i].ok, FALSE)
                    /\ store[id].due = IF log[i].ok THEN DateOnly(day) ELSE mem[id].due
              /\ test_mode => store[id].due = mem[id].due

\* a task met the dialog at 23:15 and was moved: the store holds tomorrow's date for it
C13_Witness ==
    /\ Len(log) > 2
    /\ IsReturn(Last(log), {"boundary_tomorrow"})
    /\ log[Len(log) - 1].ev = "patch_date"
    /\ log[Len(log) - 1].ok
    /\ log[Len(log) - 2].ev = "boundary"
    /\ log[Len(log) - 2].a = At(Today, 23, 15)
    /\ store[Last(log).id].due = DateOnly(Today + 1)
    /\ current_time = At(Today, 23, 15)
    /\ \A i \in 1..Len(current_schedule) : current_schedule[i] # Last(log).id

\* the calendar day of a due value
DueDay(due) == IF due.timed THEN LocalDate(due.start) ELSE due.start

\* the step is a Defer-to-tomorrow decision whose patch the store accepted
DeferTomorrowStep ==
    /\ pc = "prompt"
    /\ Len(log') > Len(log) + 1
    /\ IsReturn(Last(log'), {"tomorrow"})
    /\ log'[Len(log') - 1].ev = "patch_date"
    /\ log'[Len(log') - 1].ok

(* C14 as stated: after a Defer-to-tomorrow decision the task's due in the
   store is date-only and exactly one calendar day later than its due before
   the decision, also for an overdue task and for a proposed window on a
   later day. *)
C14_DeferAdvancesDueByOneDay ==
    [][DeferTomorrowStep => store'[task].due = DateOnly(DueDay(store[task].due) + 1)]_vars

(* C14 amended: after a Defer-to-tomorrow decision whose patch the store
   accepts, the task's due in the store is date-only and is the calendar day
   after the local date of the proposed window's start, whatever the due was
   before; when the store rejects the patch the store is unchanged. *)
C14_DeferSetsDayAfterCandidate ==
    [][(pc = "prompt" /\ Len(log') > Len(log) /\ IsReturn(Last(log'), {"tomorrow"}))
          => IF DeferTomorrowStep
             THEN store' = [store EXCEPT ![task].due = DateOnly(LocalDate(start_time_local) + 1)]
             ELSE store' = store]_vars

\* an overdue task (due yesterday) deferred from a window of today: due tomorrow
C14_Witness ==
    /\ Len(log) > 1
    /\ IsReturn(Last(log), {"tomorrow"})
    /\ log[Len(log) - 1].ev = "patch_date"
    /\ log[Len(log) - 1].ok
    /\ mem[Last(log).id].due = DateOnly(Today - 1)
    /\ store[Last(log).id].due = DateOnly(Today + 1)

\* the number of reconciler runs the trace shows before event k
ReconcilerRunsBefore(k) == Cardinality({ j \in 1..(k - 1) : log[j].ev = "reconcile" })

(* C15: in every session the Conflict Reconciler runs exactly once, and
   before the first task is proposed: by the time schedule_single_task is
   called for a task the trace shows one run of the reconciler, and a
   finished session shows one. *)
C15_ReconcilerRunsOnceBeforeScheduling ==
    /\ \A k \in 1..Len(log) : log[k].ev = "call" => ReconcilerRunsBefore(k) = 1
    /\ pc = "done" => ReconcilerRunsBefore(Len(log) + 1) = 1

\* the pairs the reconciler handled, as its requests to the store show them:
\* the set_date_only calls come two by two
HandledPairs ==
    { <<log[2 * i].id, log[2 * i + 1].id>> : i \in 1..((Len(log) - 1) \div 2) }

WindowsIntersect(d1, d2) ==
    /\ HasFullWindow(d1) /\ HasFullWindow(d2)
    /\ d1.start < d2.end /\ d2.start < d1.end

BinarizedHigh(priority) == priority \in {"High", "Must Be Done Today"}

(* C16: for every pair of overlapping time-boxed tasks the Conflict
   Reconciler handles, both get a date-only patch (today's date) whatever
   their priorities, and of the two exactly those of binarized priority High
   are kept in the in-memory schedule: High+High keeps both, High+Low drops
   the Low one, Low+Low drops both; tasks of no handled pair are kept. *)
C16_ReconcilerDemotesBothKeepsHigh ==
    pc = "reconciled" =>
        /\ Len(log) % 2 = 1
        /\ \A k \in 2..Len(log) :
              log[k] = Ev("patch_date", log[k].id, LocalDate(now), NoTime, "", log[k].ok, FALSE)
        /\ \A p \in HandledPairs :
              /\ WindowsIntersect(mem[p[1]].due, mem[p[2]].due)
              /\ \A x \in {p[1], p[2]} :
                    /\ store[x].due = IF \E k \in 2..Len(log) : log[k].id = x /\ log[k].ok
                                      THEN DateOnly(LocalDate(now)) ELSE mem[x].due
                    /\ (\E i \in 1..Len(current_schedule) : current_schedule[i] = x)
                          <=> BinarizedHigh(mem[x].priority)
        /\ current_schedule =
              SelectSeq(ReconcileInput,
                        LAMBDA x : (\A p \in HandledPairs : x \notin {p[1], p[2]})
                                      \/ BinarizedHigh(mem[x].priority))
        /\ \A i, j \in 1..MaxExisting :
              (i < j /\ WindowsIntersect(mem[100 + i].due, mem[100 + j].due))
                  => \E p \in HandledPairs : {100 + i, 100 + j} \cap {p[1], p[2]} # {}

\* the scenario of the spec: A High 09:00-10:00, B Low 09:30-10:30
C16_Witness ==
    /\ pc = "reconciled"
    /\ mem[101].priority = "High"
    /\ mem[101].due = Window(At(Today, 9, 0), At(Today, 10, 0))
    /\ mem[102].priority = "Low"
    /\ mem[102].due = Window(At(Today, 9, 30), At(Today, 10, 30))
    /\ store[101].due = DateOnly(Today)
    /\ store[102].due = DateOnly(Today)
    /\ \E i \in 1..Len(current_schedule) : current_schedule[i] = 101
    /\ \A i \in 1..Len(current_schedule) : current_schedule[i] # 102

(* C17: every free block the Free-Block Calculator returns lies inside
   [max(window.start, now), window.end] (the window is 09:00-23:00 of the
   clock's day), for every schedule, also with busy intervals that start
   after the window's end and with a clock later than the window's end. *)
C17_FreeBlocksInsideWindow ==
    \A k \in 1..Len(log) :
        \A i \in 1..Len(log[k].blocks) :
            /\ Max(At(LocalDate(log[k].now), 9, 0), log[k].now) <= log[k].blocks[i][1]
            /\ log[k].blocks[i][1] <= log[k].blocks[i][2]
            /\ log[k].blocks[i][2] <= At(LocalDate(log[k].now), 23, 0)

(* C18: two runs of the Free-Block Calculator that read the same clock
   return the same free blocks, and no run changes the in-memory schedule:
   every run read the schedule that is there now. *)
C18_FreeBlocksIdempotent ==
    /\ \A i, j \in 1..Len(log) :
          log[i].now = log[j].now => log[i].blocks = log[j].blocks
    /\ \A k \in 1..Len(log) :
          log[k].schedule = ScheduleDues(current_schedule, mem)
    /\ current_schedule = ReconcileInput

\* two runs at 08:30 on a schedule given out of order: 11:00-22:30 is free
\* between 10:00-11:00 and 22:30-23:30
C18_Witness ==
    /\ Len(log) = 2
    /\ log[1].now = At(Today, 8, 30)
    /\ log[2].now = At(Today, 8, 30)
    /\ mem[101].due = Window(At(Today, 22, 30), At(Today, 23, 30))
    /\ mem[102].due = Window(At(Today, 10, 0), At(Today, 11, 0))
    /\ log[2].blocks = << <<At(Today, 9, 0), At(Today, 10, 0)>>,
                          <<At(Today, 11, 0), At(Today, 22, 30)>> >>
    /\ log[1].blocks = log[2].blocks

(* C19: an input at the decision prompt that is neither a token of the menu
   nor a clock time changes nothing: no request to the store and no return
   (the trace is as it was), the candidate window, the in-memory schedule
   and tasks, current_time, the mode flags, the seen names and the queues
   are unchanged, and the same task is still at its prompt. *)
C19_InvalidInputReprompts ==
    [][(pc = "prompt" /\ user_input' = "25:00" /\ user_input' # user_input)
          => /\ pc' = "prompt"
             /\ task' = task
             /\ UNCHANGED <<store, log, start_time_local, end_time_local, time_block_minutes,
                            current_schedule, mem, current_time, accept_all_mode,
                            allow_late_night_scheduling, ignore_availability_mode,
                            scheduled_task_names, high_priority_tasks, low_priority_tasks>>]_vars

\* "25:00" was typed at the first prompt of a task: the proposal stands
C19_Witness ==
    /\ pc = "prompt"
    /\ user_input = "25:00"
    /\ ~overridden
    /\ Last(log).ev = "prompt"
    /\ Last(log).id = task
    /\ start_time_local = Last(log).a
    /\ end_time_local = Last(log).b

(* C20: when the store rejects the patch of a commit, the scheduler goes on
   as after a commit the store accepted: it returns the candidate end, the
   task is in the in-memory schedule, current_time is the candidate end, and
   the driver goes on (the next task, if any, is called with that cursor). *)
C20_FailedCommitGoesOn ==
    \A k \in 1..Len(log) :
        (log[k].ev = "patch_window" /\ ~log[k].ok)
            => /\ k < Len(log)
               /\ IsReturn(log[k + 1], CommitOutcomes)
               /\ log[k + 1].id = log[k].id
               /\ log[k + 1].a = log[k].b
               /\ \E i \in 1..Len(current_schedule) : current_schedule[i] = log[k].id
               /\ IF k + 1 = Len(log)
                  THEN /\ current_time = log[k].b
                       /\ pc = "idle" \/ (pc = "done" /\ ~Queued)
                  ELSE /\ log[k + 2].ev = "call"
                       /\ log[k + 2].a = log[k].b

\* the patch of the first task was rejected; the second task is at its prompt
C20_Witness ==
    /\ pc = "prompt"
    /\ \E k \in 1..Len(log) :
          /\ log[k].ev = "patch_window"
          /\ ~log[k].ok
          /\ k + 2 <= Len(log)
          /\ log[k + 2].ev = "call"
          /\ log[k + 2].id = task
          /\ current_time = log[k].b
          /\ store[log[k].id].due = mem[log[k].id].due
          /\ ~store[log[k].id].due.timed

----------------------------------------------------------------------------
(* C21: for every task snapshot, also one without a name or without a due
   date object, schedule_single_task ends in one of its outcomes and raises
   nothing: no exception leaves it, in accept-all mode either. *)
C21_NeverRaises ==
    /\ pc # "error"
    /\ \A k \in 1..Len(log) : log[k].ev # "raise"

\* the ids schedule_single_task was called with, in order
CalledIds == LET calls == SelectSeq(log, LAMBDA e : e.ev = "call")
             IN  [k \in 1..Len(calls) |-> calls[k].id]

\* the order C22 states: Must Be Done Today, then High, then the rest, each
\* group in input order, tasks with the done flag left out
HandOverOrder ==
    LET live == SelectSeq(tasks, LAMBDA id : ~mem[id].done)
    IN  SelectSeq(live, LAMBDA id : mem[id].priority = "Must Be Done Today")
            \o SelectSeq(live, LAMBDA id : mem[id].priority = "High")
            \o SelectSeq(live, LAMBDA id : mem[id].priority \notin {"Must Be Done Today", "High"})

(* C22: the tasks handed to schedule_single_task are, in order, a prefix of:
   all Must Be Done Today tasks in input order, then all High tasks in input
   order, then every other task in input order; a task whose done flag is set
   is never handed over, no low-queue task is handed over while the high
   queue holds a task, and a session that ended without a deferral or a halt
   handed over all of them. *)
C22_HandOverOrder ==
    LET called == CalledIds
        order == HandOverOrder
    IN  /\ Len(called) <= Len(order)
        /\ \A k \in 1..Len(called) :
              /\ called[k] = order[k]
              /\ ~mem[called[k]].done
              /\ ~IsHigh(mem, called[k]) => high_priority_tasks = << >>
        /\ (pc = "done" /\ (Len(log) = 0 \/ Last(log).a # NoTime))
              => called = order

\* input order High, Must Be Done Today: the second task was handed over first
C22_Witness ==
    /\ pc = "done"
    /\ tasks = <<1, 2>>
    /\ mem[1].priority = "High"
    /\ mem[2].priority = "Must Be Done Today"
    /\ CalledIds = <<2, 1>>

\* event k of the trace opens a commit in accept-all mode, or the skip of a
\* duplicate name: the window patch (none in test mode) and the return
SilentOutcomeAt(k) ==
    \/ IsReturn(log[k], {"skip"})
    \/ test_mode /\ IsReturn(log[k], {"accept_all"})
    \/ /\ ~test_mode
       /\ log[k].ev = "patch_window"
       /\ k < Len(log)
       /\ IsReturn(log[k + 1], {"accept_all"})
       /\ log[k + 1].id = log[k].id
       /\ log[k + 1].a = log[k].b

(* C23: the ACCEPT ALL token commits the task at the prompt with the window
   the prompt proposed (the patch carries that window, the return its end),
   and from then on accept_all is set: no decision prompt is shown again, and
   every later task of either queue is skipped as a duplicate name, committed
   at once, or first meets the boundary sub-dialog, whose answers "continue"
   and "restart" lead to the same skip or commit. *)
C23_AcceptAllSticks ==
    \A j \in 1..Len(log) :
        IsReturn(log[j], {"accept_all_switch"})
            => /\ accept_all_mode
               /\ pc # "prompt"
               /\ ~test_mode =>
                     /\ log[j - 1].ev = "patch_window"
                     /\ log[j - 1].id = log[j].id
                     /\ log[j - 1].b = log[j].a
                     /\ ~log[j].ov =>
                           /\ log[j - 2].ev = "prompt"
                           /\ log[j - 2].a = log[j - 1].a
                           /\ log[j - 2].b = log[j - 1].b
               /\ \A k \in (j + 1)..Len(log) :
                     /\ log[k].ev # "prompt"
                     /\ log[k].ev = "call"
                           => /\ k < Len(log)
                              /\ log[k + 1].ev = "boundary" \/ SilentOutcomeAt(k + 1)
                     /\ log[k].ev \in {"continue_late", "restart_9am"}
                           => /\ k < Len(log)
                              /\ SilentOutcomeAt(k + 1)

\* the switch was typed on a high-queue task; a low-queue task was then
\* committed without a prompt and the store holds its window
C23_Witness ==
    /\ pc = "done"
    /\ accept_all_mode
    /\ \E j, k \in 1..Len(log) :
          /\ j < k
          /\ IsReturn(log[j], {"accept_all_switch"})
          /\ IsHigh(mem, log[j].id)
          /\ IsReturn(log[k], {"accept_all"})
          /\ ~IsHigh(mem, log[k].id)
          /\ log[k - 1].ev = "patch_window"
          /\ log[k - 1].ok
          /\ store[log[k].id].due = Window(log[k - 1].a, log[k - 1].b)

\* the status each terminal token stands for in the menu of line 667
ChosenStatus(u) == IF u = "X" THEN "Deprecated" ELSE "Done"

\* the step is the terminal decision for the token u, outside test mode
TerminalStep(u) ==
    /\ pc = "prompt"
    /\ ~test_mode
    /\ Terminal(u)

(* C24: a terminal decision patches the status the operator chose: the
   request to the store carries Deprecated for the token "X" and Done for the
   token "C", and the store holds that status when it accepts the request. *)
C24_TerminalPatchesChosenStatus ==
    [][\A u \in {"X", "C"} :
          TerminalStep(u)
              => /\ log'[Len(log) + 1].ev = "patch_status"
                 /\ log'[Len(log) + 1].s = ChosenStatus(u)
                 /\ log'[Len(log) + 1].ok => store'[task].status = ChosenStatus(u)]_vars

(* C25: after a Mark Done or Mark Deprecated decision the task is not in the
   in-memory schedule, current_time is the end of the proposed window (the
   window of the prompt when no manual override came in between), and the
   session goes on: the next task, if any, is called with that cursor. *)
C25_TerminalGoesOn ==
    \A k \in 1..Len(log) :
        IsReturn(log[k], {"terminal"})
            => /\ \A i \in 1..Len(current_schedule) : current_schedule[i] # log[k].id
               /\ log[k].a # NoTime
               /\ ~log[k].ov => log[k].a = log[LastBefore("prompt", k)].b
               /\ IF k = Len(log)
                  THEN /\ current_time = log[k].a
                       /\ pc = "idle" \/ (pc = "done" /\ ~Queued)
                  ELSE /\ log[k + 1].ev = "call"
                       /\ log[k + 1].a = log[k].a

\* the first task was marked and the store took the status; the second task
\* is at its prompt, proposed from the end of the first task's window
C25_Witness ==
    /\ pc = "prompt"
    /\ Len(log) > 4
    /\ log[2].ev = "prompt"
    /\ log[3].ev = "patch_status"
    /\ log[3].ok
    /\ IsReturn(log[4], {"terminal"})
    /\ store[log[4].id].status = "Done"
    /\ log[5].ev = "call"
    /\ log[5].id = task
    /\ current_time = log[2].b
    /\ current_time > log[1].a

(* C26: a manual time override never commits by itself.  The step that reads
   the clock time "9AM" sends nothing to the store and returns nothing (the
   trace is as it was), leaves current_time, the in-memory schedule, the
   queues and the mode flags alone and keeps the same task at its prompt; the
   candidate becomes 09:00 on the candidate's date with the end one policy
   duration later, repaired again in normal mode (shifted by whole durations
   until no entry overlaps), clipped forward to the clock's reading under
   ignore_availability. *)
C26_OverrideOnlyReproposes ==
    [][(pc = "prompt" /\ pc' = "prompt" /\ user_input' = "9AM")
          => /\ task' = task
             /\ UNCHANGED <<store, log, current_time, current_schedule, mem,
                            time_block_minutes, accept_all_mode, allow_late_night_scheduling,
                            ignore_availability_mode, scheduled_task_names,
                            high_priority_tasks, low_priority_tasks>>
             /\ end_time_local' = start_time_local' + time_block_minutes
             /\ LET s0 == At(LocalDate(start_time_local), 9, 0)
                    tbm == time_block_minutes
                IN  IF ignore_availability_mode
                    THEN /\ now' >= now
                         /\ start_time_local' = Max(s0, now')
                    ELSE /\ overlap_count' >= 0
                         /\ start_time_local' = s0 + overlap_count' * tbm
                         /\ ~check_for_overlap(current_schedule, mem, start_time_local',
                                               end_time_local')
                         /\ \A k \in 0..(overlap_count' - 1) :
                               check_for_overlap(current_schedule, mem, s0 + k * tbm,
                                                 s0 + (k + 1) * tbm)]_vars

\* a task proposed at 22:30 was moved to 9AM by hand: the candidate is
\* 09:00, nothing was sent to the store, the cursor is where it was
C26_Witness ==
    /\ pc = "prompt"
    /\ overridden
    /\ user_input = "9AM"
    /\ Last(log).ev = "prompt"
    /\ Last(log).id = task
    /\ Last(log).a = At(Today, 22, 30)
    /\ start_time_local = At(Today, 9, 0)
    /\ end_time_local = At(Today, 9, 0) + time_block_minutes
    /\ current_time = At(Today, 22, 30)
    /\ store[task].due = mem[task].due
    /\ current_schedule = << >>

\* the rule of C27 for a candidate s0..e0 of task id: the window s..e proposed
\* under ignore_availability
AnchoredWindow(id, s0, e0, s, e) ==
    LET anchor == IF LocalHour(s0) >= 23 THEN At(LocalDate(s0), 9, 0) ELSE s0
    IN  /\ s = Max(anchor, now')
        /\ s # s0 => e = s + TimeBlockMinutes(mem[id].priority)
        /\ s = s0 => e = e0

(* C27: while ignore_availability is set, the window proposed for a task (at
   its prompt, or committed at once in accept-all mode) starts at the
   candidate start when that is before local hour 23 and not in the past, at
   now when it is in the past, and at max(9:00 local on the candidate's date,
   now) when the candidate start is at hour 23 or later; a moved window ends
   one policy duration after its start; the repair loop is not run (no shift
   is counted, and the window may overlap a schedule entry). *)
C27_IgnoreAvailabilityAnchors ==
    [][(ignore_availability_mode' /\ pc \in {"idle", "boundary"} /\ Len(log') > Len(log))
          => LET id == IF pc = "boundary" THEN task
                       ELSE IF high_priority_tasks # << >> THEN Head(high_priority_tasks)
                       ELSE Head(low_priority_tasks)
                 s0 == IF pc = "boundary" THEN start_time_local
                       ELSE CandidateStart(current_time, mem[id].status)
                 e0 == IF pc = "boundary" THEN end_time_local
                       ELSE CandidateEnd(current_time, s0, mem[id].status,
                                         TimeBlockMinutes(mem[id].priority))
                 n == Len(log')
             IN  /\ pc' = "prompt"
                       => /\ task' = id
                          /\ AnchoredWindow(id, s0, e0, start_time_local', end_time_local')
                          /\ overlap_count' = 0
                          /\ log'[n] = Ev("prompt", id, start_time_local', end_time_local',
                                          "", TRUE, FALSE)
                 /\ (IsReturn(log'[n], {"accept_all"}) /\ ~test_mode)
                       => /\ log'[n - 1].ev = "patch_window"
                          /\ log'[n - 1].id = id
                          /\ AnchoredWindow(id, s0, e0, log'[n - 1].a, log'[n - 1].b)
                 /\ pc' \in {"prompt", "idle", "done"}]_vars

\* the boundary dialog at 23:15 was answered "restart": the task is proposed
\* at 09:00, on top of the 09:00-10:00 entry of the schedule
C27_Witness ==
    /\ pc = "prompt"
    /\ ignore_availability_mode
    /\ ~overridden
    /\ pre_start = At(Today, 23, 15)
    /\ start_time_local = At(Today, 9, 0)
    /\ end_time_local = At(Today, 9, 0) + time_block_minutes
    /\ overlap_count = 0
    /\ check_for_overlap(current_schedule, mem, start_time_local, end_time_local)

\* the candidate start C28 states for a task of the given status called with
\* the cursor ct
StatedStart(ct, status) ==
    IF status = "Not started [later]" /\ LocalHour(ct) < 18
    THEN LocalDate(ct) * MinutesPerDay + 18 * 60
    ELSE ct

(* C28: the candidate start of a task whose status is the 'later' variant is
   18:00 local on the cursor's date when the cursor's local hour is below 18
   and the cursor itself otherwise; the candidate start of a task of any
   other status is the cursor.  (The candidate start is what the boundary
   check reads and what enters the anchor or repair step.) *)
C28_LaterStartsAtSix ==
    /\ pc = "boundary" => start_time_local = StatedStart(current_time, mem[task].status)
    /\ (pc = "prompt" /\ ~overridden) => pre_start = StatedStart(current_time, mem[task].status)

\* a 'later' task called at 09:00 is proposed at 18:00-18:30
C28_Witness ==
    /\ pc = "prompt"
    /\ ~overridden
    /\ mem[task].status = Later
    /\ current_time = At(Today, 9, 0)
    /\ pre_start = At(Today, 18, 0)
    /\ start_time_local = At(Today, 18, 0)
    /\ end_time_local = At(Today, 18, 30)

\* entry d of a schedule has both a start and an end
FullEntry(d) == d.start # NoTime /\ d.end # NoTime

(* C29: the Overlap Checker answers true exactly when some schedule entry
   with a start and an end satisfies candidate.start < entry.end and
   candidate.end > entry.start.  A candidate that ends when an entry begins
   or begins when an entry ends, and meets no other entry, gets false;
   entries without start or end never count; the schedule and its entries
   are after the call what they were before it. *)
C29_OverlapIsHalfOpen ==
    /\ \A k \in 1..Len(log) :
          LET sched == log[k].schedule
              hit(i) == /\ FullEntry(sched[i])
                        /\ log[k].start < sched[i].end
                        /\ log[k].end > sched[i].start
          IN  /\ log[k].result <=> \E i \in 1..Len(sched) : hit(i)
              /\ (\A i \in 1..Len(sched) :
                     FullEntry(sched[i])
                         => (log[k].end <= sched[i].start \/ log[k].start >= sched[i].end))
                    => ~log[k].result
              /\ (\A i \in 1..Len(sched) : ~FullEntry(sched[i])) => ~log[k].result
              /\ sched = ScheduleDues(current_schedule, mem)
    /\ current_schedule = ReconcileInput

\* against 09:00-10:00, a date-only entry and a start without an end:
\* 08:30-09:00 and 10:00-10:30 do not overlap
C29_Witness ==
    /\ Len(log) = 2
    /\ mem[101].due = Window(At(Today, 9, 0), At(Today, 10, 0))
    /\ mem[102].due = DateOnly(Today)
    /\ mem[103].due = Window(At(Today, 9, 0), NoTime)
    /\ log[1].start = At(Today, 8, 30)
    /\ log[1].end = At(Today, 9, 0)
    /\ ~log[1].result
    /\ log[2].start = At(Today, 10, 0)
    /\ log[2].end = At(Today, 10, 30)
    /\ ~log[2].result

(* C30: in normal mode (ignore_availability not set), at the moment a window
   is committed, by Apply, Promote, the accept-all switch or accept-all mode,
   after a manual override or not, check_for_overlap answers false for that
   window against the in-memory schedule as it is when the commit starts. *)
C30_CommittedWindowIsFree ==
    [][(/\ ~ignore_availability_mode'
        /\ ~test_mode
        /\ Len(log') > Len(log)
        /\ IsReturn(Last(log'), CommitOutcomes))
          => /\ log'[Len(log') - 1].ev = "patch_window"
             /\ log'[Len(log') - 1].id = Last(log').id
             /\ log'[Len(log') - 1].b = Last(log').a
             /\ ~check_for_overlap(current_schedule, mem, log'[Len(log') - 1].a,
                                   log'[Len(log') - 1].b)]_vars

\* a High task was moved to 9AM by hand against a 09:00-10:00 entry and then
\* applied: the committed window is 10:00-10:30
C30_Witness ==
    /\ ~ignore_availability_mode
    /\ ~test_mode
    /\ Len(log) > 1
    /\ IsReturn(Last(log), {"apply"})
    /\ Last(log).ov
    /\ log[Len(log) - 1].ev = "patch_window"
    /\ log[Len(log) - 1].a = At(Today, 10, 0)
    /\ log[Len(log) - 1].b = At(Today, 10, 30)
    /\ \E i \in 1..Len(current_schedule) :
          mem[current_schedule[i]].due = Window(At(Today, 9, 0), At(Today, 10, 0))

----------------------------------------------------------------------------
(* Claims C31..C39 *)

\* the store refused the date-only patch of task x
PatchRefused(x) == \E k \in 2..Len(log) : log[k].id = x /\ ~log[k].ok

(* C31: after a run of the Conflict Reconciler no two tasks whose date-only
   patches the store accepted hold intersecting windows in the store: of
   every pair of tasks whose windows still intersect there, one was sent a
   date-only patch that the store refused.  No task is sent two patches, also
   when three or more tasks overlap each other. *)
C31_NoOverlapLeftInStore ==
    pc = "reconciled" =>
        /\ \A a, b \in ExistingIds :
              (a # b /\ WindowsIntersect(store[a].due, store[b].due))
                  => PatchRefused(a) \/ PatchRefused(b)
        /\ \A j, k \in 2..Len(log) : log[j].id = log[k].id => j = k

\* three tasks that overlap each other: the first pair was demoted, the third
\* task alone keeps its window
C31_Witness ==
    /\ pc = "reconciled"
    /\ mem[101].due = Window(At(Today, 9, 0), At(Today, 10, 0))
    /\ mem[102].due = Window(At(Today, 9, 30), At(Today, 10, 30))
    /\ mem[103].due = Window(At(Today, 9, 0), At(Today, 10, 0))
    /\ Len(log) = 3
    /\ store[101].due = DateOnly(Today)
    /\ store[102].due = DateOnly(Today)
    /\ store[103].due = mem[103].due

\* the futures of task id
FuturesOf(id) == { i \in 1..Len(futures) : futures[i].task = id }

(* C32: in the bulk due-date push scripts the tasks are handed over in fetch
   order, one future per task, and no task is sent two patches; main returns
   only when every fetched task has its future and every future is done; the
   store then holds, for every task, the date of the patch when the store
   accepted one and the fetched due otherwise, whatever the order in which
   the workers ran. *)
C32_PushOncePerTask ==
    /\ Len(futures) <= Len(tasks)
    /\ \A i \in 1..Len(futures) : futures[i].task = tasks[i]
    /\ \A j, k \in 1..Len(log) : log[j].id = log[k].id => j = k
    /\ \A k \in 1..Len(log) :
          \E i \in FuturesOf(log[k].id) : futures[i].state = "done"
    /\ pc = "returned"
          => /\ \A id \in DOMAIN mem : Cardinality(FuturesOf(id)) = 1
             /\ \A i \in 1..Len(futures) : futures[i].state = "done"
             /\ \A id \in DOMAIN mem :
                   store[id].due = IF \E k \in 1..Len(log) : log[k].id = id /\ log[k].ok
                                   THEN DateOnly(UtcDate(now))
                                   ELSE mem[id].due

\* two tasks, the second worker's patch reached the store first, and one of
\* the two patches was refused
C32_Witness ==
    /\ pc = "returned"
    /\ Len(tasks) = 2
    /\ Len(log) = 2
    /\ log[1].id = 2
    /\ log[2].id = 1
    /\ log[1].ok
    /\ ~log[2].ok
    /\ store[2].due = DateOnly(UtcDate(now))
    /\ store[1].due = mem[1].due

(* C33: in the calendar-block scheduler no task is sent a patch by two of the
   concurrent routines (the daily routine and the routines of the mappings),
   so the window a task ends with is that of its one routine. *)
C33_RoutinesPatchDisjointTasks ==
    \A j, k \in 1..Len(log) :
        (log[j].ok /\ log[k].ok /\ log[j].id = log[k].id) => log[j].s = log[k].s

(* C38: the windows one run of schedule_tasks_for_mapping sends to distinct
   tasks do not intersect, also when more tasks are fetched than its events
   hold in one pass. *)
C38_MappingWindowsDisjoint ==
    \A j, k \in 1..Len(log) :
        (log[j].ok /\ log[k].ok /\ log[j].s = log[k].s /\ log[j].s > 1
            /\ log[j].id # log[k].id)
            => ~(log[j].a < log[k].b /\ log[k].a < log[j].b)

\* the store refused the update of the thread's task
UpdateRefused(id) ==
    \E k \in 1..Len(log) : log[k].ev = "patch_priority_due" /\ log[k].id = id /\ ~log[k].ok

(* C34: the final double-check of process_tasks reports no task for which the
   operator entered a due date and a background update was started (unless
   the store refused that update). *)
C34_DoubleCheckSeesUpdates ==
    pc = "returned" =>
        \A i \in 1..Len(futures) :
            UpdateRefused(futures[i].task)
                \/ \A k \in 1..Len(log[Len(log)].missing_due) :
                      log[Len(log)].missing_due[k] # futures[i].task

\* the tasks that were sent a status patch
StatusPatched == { log[k].id : k \in 2..Len(log) }

(* C35: in every group of fetched tasks that share a name, duplicate marking
   sends the Deprecated patch to every task but one, and the one it leaves
   alone has the smallest created_time of the group; a task whose name no
   other task has is left alone.  Both versions do this. *)
C35_OldestOfGroupKept ==
    pc = "returned" =>
        \A id \in TaskIds :
            LET group == { x \in TaskIds : mem[x].name = mem[id].name }
                kept == group \ StatusPatched
            IN  /\ Cardinality(kept) = 1
                /\ \A x \in kept : \A y \in group : mem[x].created_time <= mem[y].created_time
                /\ \A k \in 2..Len(log) :
                      log[k] = Ev("patch_status", log[k].id, NoTime, NoTime, "Deprecated",
                                  log[k].ok, FALSE)

----------------------------------------------------------------------------
(* C36: the overlap repair loop terminates on every schedule and every policy
   duration: each shift moves the candidate's start strictly later, and the
   loop is left after finitely many shifts; when it is left by its test, no
   entry of the schedule overlaps the candidate. *)
C36_RepairLoopTerminates ==
    /\ [][overlap_count' # overlap_count => start_time_local' > start_time_local]_vars
    /\ <>(pc # "repair")
    /\ [](pc = "repaired" =>
            ~check_for_overlap(current_schedule, mem, start_time_local, end_time_local))

\* the loop was left by its test after two shifts or more
C36_Witness ==
    /\ pc = "repaired"
    /\ overlap_count >= 2
    /\ start_time_local > pre_start

----------------------------------------------------------------------------
(* C37: with test_mode set, no step of the Single-Task Scheduler sends a
   patch to the task store, and none appends to or removes from the
   in-memory schedule or writes a task dict, whatever the decision token and
   the boundary choice; what a step may change is the cursor, the mode flags
   and the set of seen names (and the scheduler's own locals). *)
C37_TestModeFrame ==
    [][test_mode =>
          /\ store' = store
          /\ current_schedule' = current_schedule
          /\ mem' = mem
          /\ tasks' = tasks
          /\ test_mode'
          /\ \A k \in (Len(log) + 1)..Len(log') :
                log'[k].ev \notin {"patch_window", "patch_date", "patch_status"}]_vars

\* a session in test mode in which one task was applied, one was closed or
\* deferred at the prompt, and the boundary dialog was answered
C37_Witness ==
    /\ test_mode
    /\ \E k \in 1..Len(log) : IsReturn(log[k], CommitOutcomes)
    /\ \E k \in 1..Len(log) : log[k].ev = "return" /\ log[k].s \notin CommitOutcomes \cup {"skip"}
    /\ \E k \in 1..Len(log) : log[k].ev = "boundary"
    /\ scheduled_task_names # {}

----------------------------------------------------------------------------
(* C39: triage handles every fetched unassigned task.  When triage has
   returned, every fetched task was either prompted for or sent a patch; a
   task whose name was triaged before in the run was sent the Deprecated
   patch and the loop went on to the tasks after it. *)
TriageHandled == { log[k].id : k \in 1..Len(log) }

C39_TriageHandlesEveryTask ==
    pc = "returned" => \A i \in 1..Len(tasks) : tasks[i] \in TriageHandled

====
